---- MODULE Spec2Model ----
(***************************************************************************)
(* The Rossmann feature-engineering pipeline of                            *)
(* examples/tabular-data-rossmann/01-Download-Convert.ipynb: join,         *)
(* event distance (After<F>/Before<F>), grouped rolling sums (bwd/fwd),    *)
(* re-merge of the derived columns, Sales filter, cut-off point, split     *)
(* and the written csv files, as a state machine over data frames (Spec);  *)
(* the merge and drop_cols functions on their own (SpecMerge), the         *)
(* calendar fields (SpecCalendar), the cells up to the event distance on   *)
(* extracts with a missing key (SpecMissing), the CompetitionDaysOpen /    *)
(* Promo2Days cells (SpecDuration), the calendar loop and the trend_de     *)
(* join in front of the pipeline (SpecRun), and the split cell of the      *)
(* Outbrain notebook kept in the same file (SpecOutbrain).                 *)
(*                                                                         *)
(* A data frame is a record [cols, rows]: cols is the set of column names, *)
(* rows a sequence of functions from cols to cells.  A cell is a set of at *)
(* most one integer: {} is NaN/NaT/null, {v} the value v.  Dates are day   *)
(* numbers, booleans are 0/1.                                              *)
(***************************************************************************)
EXTENDS Integers, Sequences, FiniteSets, TLC

VARIABLES pc, train_df, test_df, df, pdf, asc, desc, bwd, fwd,
          mleft, mright, msuffix, mout, cut, valid_df, csv,
          merged, random_state, valid_set, train_set,
          train, test, trend_de

vars == <<pc, train_df, test_df, df, pdf, asc, desc, bwd, fwd, mleft, mright, msuffix,
          mout, cut, valid_df, csv, merged, random_state, valid_set, train_set,
          train, test, trend_de>>

(* the variables of the Rossmann notebook and of the Outbrain notebook *)
rossmann == <<train_df, test_df, df, pdf, asc, desc, bwd, fwd, mleft, mright, msuffix,
              mout, cut, valid_df, csv, train, test, trend_de>>

(* the tables as read from the csv files *)
tables == <<train, test, trend_de>>

outbrain == <<merged, random_state, valid_set, train_set>>

(***************************************************************************)
(* Bounds of the model.                                                    *)
(***************************************************************************)
MaxRows == 3
LongLen == 8
MaxJoinRows == 3
MaxKey == 2

(***************************************************************************)
(* Cells and frames.                                                       *)
(***************************************************************************)
NaN == {}

V(x) == {x}

Val(c) == CHOOSE v \in c : TRUE

isna(c) == c = {}

(* the value of a bound variable is computed once *)
Only(S) == CHOOSE x \in S : TRUE

Frame(cols, rows) == [cols |-> cols, rows |-> rows]

EmptyFrame == Frame({}, <<>>)

Range(s) == {s[i] : i \in DOMAIN s}

Min(S) == CHOOSE x \in S : \A y \in S : x <= y

Max(S) == CHOOSE x \in S : \A y \in S : y <= x

RECURSIVE SumOver(_, _)
SumOver(f, S) ==
    IF S = {} THEN 0
    ELSE LET i == CHOOSE j \in S : TRUE IN f[i] + SumOver(f, S \ {i})

(***************************************************************************)
(* The program's constants.                                                *)
(***************************************************************************)
event_fields == <<"SchoolHoliday", "StateHoliday", "Promo">>

window_plus_one == 7 + 1

window == 7

min_periods == 1

TrainCols == {"Store", "Date", "SchoolHoliday", "StateHoliday", "Promo", "Sales"}

TestCols == {"Id", "Store", "Date", "SchoolHoliday", "StateHoliday", "Promo"}

(***************************************************************************)
(* Input tables.  A store's rows are drawn by date: the first ntrain rows  *)
(* belong to the train extract and the rest to the test extract; each row  *)
(* lies gap days (a day or a week) after the store's previous row; with    *)
(* dup the first test row repeats the date of the last train row.  bits is *)
(* the event pattern:                                                      *)
(* the three indicator columns are three different bijective images of it, *)
(* so each of them takes every 0/1 pattern over the inputs.  Sales is the  *)
(* pattern too, except that a train row whose date the test extract        *)
(* repeats is a day without sales.                                         *)
(***************************************************************************)
Gaps == {1, 7}

Stores == {1, 2, 3}

GroupShapes(k) ==
    [ntrain : 0..k, bits : [1..k -> 0..1], gap : [2..k -> Gaps], dup : BOOLEAN]

RealShape(g, k) == g.dup => (0 < g.ntrain /\ g.ntrain < k)

GapAt(g, i) ==
    IF i = 1 THEN 1 ELSE IF g.dup /\ i = g.ntrain + 1 THEN 0 ELSE g.gap[i]

RECURSIVE DateAt(_, _)
DateAt(g, i) == IF i = 1 THEN 1 ELSE DateAt(g, i - 1) + GapAt(g, i)

RawRow(s, g, i) ==
    [Store |-> s, Date |-> DateAt(g, i), test |-> (i > g.ntrain),
     SchoolHoliday |-> g.bits[i],
     StateHoliday |-> 1 - g.bits[i],
     Promo |-> (g.bits[i] + i) % 2,
     Sales |-> IF g.dup /\ i = g.ntrain THEN 0 ELSE g.bits[i]]

GroupRows(s, k) ==
    {[i \in 1..k |-> RawRow(s, g, i)] : g \in {x \in GroupShapes(k) : RealShape(x, k)}}

RECURSIVE Inputs(_, _)
Inputs(S, r) ==
    IF S = {} THEN {<<>>}
    ELSE LET s == CHOOSE x \in S : \A y \in S : x <= y
         IN  UNION {{g \o rest : g \in GroupRows(s, k), rest \in Inputs(S \ {s}, r - k)} :
                      k \in 0..r}

LongShapes ==
    {[ntrain |-> LongLen - 1, bits |-> bits, gap |-> [i \in 2..LongLen |-> 1], dup |-> FALSE] :
        bits \in [1..LongLen -> 0..1]}

LongInputs == {[i \in 1..LongLen |-> RawRow(1, g, i)] : g \in LongShapes}

(* a train extract of 3 stores with a row on each of 10 consecutive days,
   Promo on day 3 of store 1 and on day 7 of store 2 only, no holidays, and
   sales on the Promo days only; no test rows *)
ScenarioRow(s, d) ==
    [Store |-> s, Date |-> d, test |-> FALSE,
     SchoolHoliday |-> 0, StateHoliday |-> 0,
     Promo |-> IF <<s, d>> \in {<<1, 3>>, <<2, 7>>} THEN 1 ELSE 0,
     Sales |-> IF <<s, d>> \in {<<1, 3>>, <<2, 7>>} THEN 1 ELSE 0]

ScenarioInput == [i \in 1..30 |-> ScenarioRow(((i - 1) \div 10) + 1, ((i - 1) % 10) + 1)]

(* two stores: store 1 with sales on three consecutive train days and a test
   row on the fourth, store 2 with a train day without sales and one with *)
CutInput ==
    [i \in 1..4 |->
        RawRow(1, [ntrain |-> 3, bits |-> [j \in 1..4 |-> 1], gap |-> [j \in 2..4 |-> 1],
                   dup |-> FALSE], i)]
    \o [i \in 1..2 |->
           RawRow(2, [ntrain |-> 2, bits |-> [j \in 1..2 |-> j - 1], gap |-> [j \in 2..2 |-> 1],
                      dup |-> FALSE], i)]

TrainRow(r) ==
    [c \in TrainCols |->
        CASE c = "Store" -> V(r.Store)
          [] c = "Date" -> V(r.Date)
          [] c = "SchoolHoliday" -> V(r.SchoolHoliday)
          [] c = "StateHoliday" -> V(r.StateHoliday)
          [] c = "Promo" -> V(r.Promo)
          [] c = "Sales" -> V(r.Sales)]

TestRow(r, id) ==
    [c \in TestCols |->
        CASE c = "Id" -> V(id)
          [] c = "Store" -> V(r.Store)
          [] c = "Date" -> V(r.Date)
          [] c = "SchoolHoliday" -> V(r.SchoolHoliday)
          [] c = "StateHoliday" -> V(r.StateHoliday)
          [] c = "Promo" -> V(r.Promo)]

IsTest(r) == r.test

IsTrain(r) == ~r.test

TrainFrame(raw) ==
    LET t == SelectSeq(raw, IsTrain)
    IN  Frame(TrainCols, [i \in 1..Len(t) |-> TrainRow(t[i])])

TestFrame(raw) ==
    LET t == SelectSeq(raw, IsTest)
    IN  Frame(TestCols, [i \in 1..Len(t) |-> TestRow(t[i], i)])

(***************************************************************************)
(* Sorting.  Rows with equal keys may come out in any order.               *)
(***************************************************************************)
(* a missing key sorts last, in ascending and in descending order
   (na_position='last') *)
CellLess(a, b, ascending) ==
    IF isna(a) THEN FALSE
    ELSE IF isna(b) THEN TRUE
    ELSE IF ascending THEN Val(a) < Val(b) ELSE Val(b) < Val(a)

RECURSIVE Precedes(_, _, _, _)
Precedes(r1, r2, by, ascending) ==
    IF by = <<>> THEN FALSE
    ELSE \/ CellLess(r1[Head(by)], r2[Head(by)], ascending)
         \/ (r1[Head(by)] = r2[Head(by)] /\ Precedes(r1, r2, Tail(by), ascending))

RECURSIVE SortPerms(_, _, _, _)
SortPerms(t, S, by, ascending) ==
    IF S = {} THEN {<<>>}
    ELSE LET firsts == {i \in S : \A j \in S : ~Precedes(t[j], t[i], by, ascending)}
         IN  UNION {{<<m>> \o p : p \in SortPerms(t, S \ {m}, by, ascending)} : m \in firsts}

sort_values(t, by, ascending) ==
    {[k \in 1..Len(t) |-> t[p[k]]] : p \in SortPerms(t, 1..Len(t), by, ascending)}

(***************************************************************************)
(* df = train_df.append(test_df, ignore_index=True)                        *)
(***************************************************************************)
Widen(r, have, cols) == [c \in cols |-> IF c \in have THEN r[c] ELSE NaN]

append_left_only(a, b) == a

append_left_columns(a, b) ==
    Frame(a.cols,
          [i \in 1..Len(a.rows) |-> a.rows[i]]
          \o [i \in 1..Len(b.rows) |-> Widen(b.rows[i], b.cols, a.cols)])

append(a, b) ==
    LET cols == a.cols \cup b.cols
    IN  Frame(cols,
              [i \in 1..Len(a.rows) |-> Widen(a.rows[i], a.cols, cols)]
              \o [i \in 1..Len(b.rows) |-> Widen(b.rows[i], b.cols, cols)])

(***************************************************************************)
(* Event distance: the masks, the masked date column, ffill/bfill, deltas. *)
(***************************************************************************)
Column(rows, c) == [i \in 1..Len(rows) |-> rows[i][c]]

diff(col, i) ==
    IF i = 1 \/ isna(col[i]) \/ isna(col[i - 1]) THEN NaN
    ELSE V(Val(col[i]) - Val(col[i - 1]))

AsBool(c) == ~isna(c) /\ Val(c) # 0

first_indices_unmarked(rows, i) == FALSE

first_indices(rows, i) == diff(Column(rows, "Store"), i) # V(0)

last_indices_no_sentinel(rows, i) ==
    IF i < Len(rows) THEN diff(Column(rows, "Store"), i + 1) ELSE NaN

last_indices(rows, i) ==
    IF i < Len(rows) THEN diff(Column(rows, "Store"), i + 1) ELSE V(1)

idx_mask_everywhere(rows, i) == TRUE

idx_mask_first_only(rows, i) == ~first_indices(rows, i)

idx_mask(rows, i) == ~(first_indices(rows, i) \/ AsBool(last_indices(rows, i)))

tmp_events_only(rows, field, i) ==
    IF rows[i][field] = V(0) THEN NaN ELSE rows[i]["Date"]

tmp(rows, field, i) ==
    IF rows[i][field] = V(0) /\ idx_mask(rows, i) THEN NaN ELSE rows[i]["Date"]

RECURSIVE ffill(_, _, _)
ffill(rows, field, i) ==
    IF ~isna(tmp(rows, field, i)) THEN tmp(rows, field, i)
    ELSE IF i = 1 THEN NaN ELSE ffill(rows, field, i - 1)

RECURSIVE bfill(_, _, _)
bfill(rows, field, i) ==
    IF ~isna(tmp(rows, field, i)) THEN tmp(rows, field, i)
    ELSE IF i = Len(rows) THEN NaN ELSE bfill(rows, field, i + 1)

Minus(a, b) == IF isna(a) \/ isna(b) THEN NaN ELSE V(Val(a) - Val(b))

Plus(a, b) == IF isna(a) \/ isna(b) THEN NaN ELSE V(Val(a) + Val(b))

AfterCol(f) == "After" \o f

BeforeCol(f) == "Before" \o f

AfterCols == {AfterCol(event_fields[k]) : k \in DOMAIN event_fields}

BeforeCols == {BeforeCol(event_fields[k]) : k \in DOMAIN event_fields}

FieldOf(c) ==
    CHOOSE f \in Range(event_fields) : c = AfterCol(f) \/ c = BeforeCol(f)

After_unfilled(rows, field, i) == Minus(rows[i]["Date"], tmp(rows, field, i))

After(rows, field, i) == Minus(rows[i]["Date"], ffill(rows, field, i))

Before_operands_swapped(rows, field, i) == Minus(rows[i]["Date"], bfill(rows, field, i))

Before(rows, field, i) == Minus(bfill(rows, field, i), rows[i]["Date"])

event_distance(t) ==
    LET cols == t.cols \cup AfterCols \cup BeforeCols
        Cell(i, c) ==
            IF c \in AfterCols THEN After(t.rows, FieldOf(c), i)
            ELSE IF c \in BeforeCols THEN Before(t.rows, FieldOf(c), i)
            ELSE t.rows[i][c]
    IN  Frame(cols, [i \in 1..Len(t.rows) |-> [c \in cols |-> Cell(i, c)]])

(***************************************************************************)
(* Left outer join (DataFrame.merge(how='left')) and the notebook's merge  *)
(* and drop_cols.  The result keeps the left rows' order; every later use  *)
(* of a join result either ignores the order or sorts first.  A right      *)
(* column whose suffixed name collides with a left column is shadowed by   *)
(* the left one.                                                           *)
(***************************************************************************)
None == <<>>

(* an omitted suffix: suffix or '_y' takes None and '' alike *)
NoSuffix == ""

(* column names: base names, and the names a join suffix makes of them *)
BaseNames ==
    TrainCols \cup TestCols \cup AfterCols \cup BeforeCols \cup {"k", "rk", "a", "b"}
    \cup {"Month", "Day", "Year", "Week", "trend"}

Suffixes == {"_y", "_DE", "_bw", "_fw"}

Suffixed1 == BaseNames \cup {c \o x : c \in BaseNames, x \in Suffixes}

WithSuffix == [x \in Suffixes |-> [c \in Suffixed1 |-> c \o x]]

EndingWith == [x \in Suffixes |-> {c \o x : c \in Suffixed1}]

endswith(c, suffix) == c \in EndingWith[suffix]

SameKeys(left_on, right_on) ==
    {left_on[k] : k \in {j \in DOMAIN left_on : left_on[j] = right_on[j]}}

RightKept(rcols, left_on, right_on) == rcols \ SameKeys(left_on, right_on)

RightName_always_suffixed(c, lcols, suffix) == WithSuffix[suffix][c]

RightName(c, lcols, suffix) == IF c \in lcols THEN WithSuffix[suffix][c] ELSE c

merge_columns(lcols, rcols, left_on, right_on, suffix) ==
    lcols \cup {RightName(c, lcols, suffix) : c \in RightKept(rcols, left_on, right_on)}

KeysMatch_first_key(l, r, left_on, right_on) == l[left_on[1]] = r[right_on[1]]

KeysMatch(l, r, left_on, right_on) ==
    \A k \in DOMAIN left_on : l[left_on[k]] = r[right_on[k]]

RightSource(lcols, rcols, left_on, right_on, suffix) ==
    [c \in merge_columns(lcols, rcols, left_on, right_on, suffix) \ lcols |->
        CHOOSE rc \in RightKept(rcols, left_on, right_on) : RightName(rc, lcols, suffix) = c]

JoinedRow(l, r, matched, lcols, cols, src) ==
    [c \in cols |->
        IF c \in lcols THEN l[c] ELSE IF matched THEN r[src[c]] ELSE NaN]

RowMatches_inner(l, left, right, left_on, right_on, cols, src) ==
    LET Hit(r) == KeysMatch(l, r, left_on, right_on)
        hits == SelectSeq(right.rows, Hit)
    IN  [j \in 1..Len(hits) |-> JoinedRow(l, hits[j], TRUE, left.cols, cols, src)]

RowMatches(l, left, right, left_on, right_on, cols, src) ==
    LET Hit(r) == KeysMatch(l, r, left_on, right_on)
        hits == SelectSeq(right.rows, Hit)
    IN  IF hits = <<>>
        THEN <<JoinedRow(l, l, FALSE, left.cols, cols, src)>>
        ELSE [j \in 1..Len(hits) |-> JoinedRow(l, hits[j], TRUE, left.cols, cols, src)]

RECURSIVE JoinRows(_, _, _, _, _, _, _)
JoinRows(i, left, right, left_on, right_on, cols, src) ==
    IF i > Len(left.rows) THEN <<>>
    ELSE RowMatches(left.rows[i], left, right, left_on, right_on, cols, src)
         \o JoinRows(i + 1, left, right, left_on, right_on, cols, src)

DataFrameMerge(left, right, left_on, right_on, suffix) ==
    Only({Frame(cols, JoinRows(1, l, r, left_on, right_on, cols, src)) :
            l \in {left}, r \in {right},
            cols \in {merge_columns(left.cols, right.cols, left_on, right_on, suffix)},
            src \in {RightSource(left.cols, right.cols, left_on, right_on, suffix)}})

merge(left, right, left_on, right_on, suffix) ==
    DataFrameMerge(left, right, left_on,
                   IF right_on = None THEN left_on ELSE right_on,
                   IF suffix = NoSuffix THEN "_y" ELSE suffix)

KeepCols(gdf, keep) ==
    Frame(keep, [i \in 1..Len(gdf.rows) |-> [c \in keep |-> gdf.rows[i][c]]])

drop_cols_any_suffix(gdf) == KeepCols(gdf, gdf.cols \cap BaseNames)

drop_cols(gdf) == KeepCols(gdf, {c \in gdf.cols : ~endswith(c, "_y")})

(***************************************************************************)
(* Grouped rolling sums: df[['Store']+event_fields] sorted on the Date     *)
(* index, grouped by Store (groups in key order, rows of a group in the    *)
(* order of the sorted frame), rolling(window, min_periods).sum(), then    *)
(* the rolled Store column dropped and the (Store, Date) index reset.      *)
(***************************************************************************)
RollCols == {"Store", "Date"} \cup Range(event_fields)

Project(t, cols) ==
    Frame(cols, [i \in 1..Len(t.rows) |-> [c \in cols |-> t.rows[i][c]]])

(* sort_index(ascending).groupby("Store"): the groups in key order, the rows
   of a group in the order the sorted frame has them.  The sorted frame may
   have rows of equal Date in any order, so a group's rows may come in any
   order that is sorted by Date, independently of the other groups. *)
RECURSIVE sort_index_groupby(_, _, _)
sort_index_groupby(rows, keys, ascending) ==
    IF keys = {} THEN {<<>>}
    ELSE LET k == Min(keys)
             InGroup(r) == r["Store"] = V(k)
         IN  {g \o rest :
                g \in sort_values(SelectSeq(rows, InGroup), <<"Date">>, ascending),
                rest \in sort_index_groupby(rows, keys \ {k}, ascending)}

StoreKeys(rows) == {Val(rows[i]["Store"]) : i \in DOMAIN rows}

RECURSIVE group_start(_, _)
group_start(g, i) ==
    IF i = 1 \/ g[i - 1]["Store"] # g[i]["Store"] THEN i ELSE group_start(g, i - 1)

window_size_unclipped(g, i) == IF i < window THEN i ELSE window

window_size(g, i) ==
    LET have == i - group_start(g, i) + 1
    IN  IF have < window THEN have ELSE window

rolling_sum_closed_left(g, field, i) ==
    LET w == window_size(g, i)
        obs == {j \in (i - w)..(i - 1) : j >= group_start(g, i) /\ ~isna(g[j][field])}
    IN  IF Cardinality(obs) < min_periods THEN NaN
        ELSE V(SumOver([j \in obs |-> Val(g[j][field])], obs))

rolling_sum(g, field, i) ==
    LET w == window_size(g, i)
        obs == {j \in (i - w + 1)..i : ~isna(g[j][field])}
    IN  IF Cardinality(obs) < min_periods THEN NaN
        ELSE V(SumOver([j \in obs |-> Val(g[j][field])], obs))

bwd_frames(t) ==
    {Frame(RollCols, g) :
        g \in sort_index_groupby(Project(t, RollCols).rows, StoreKeys(t.rows), TRUE)}

fwd_frames_ascending(t) == bwd_frames(t)

fwd_frames(t) ==
    {Frame(RollCols, g) :
        g \in sort_index_groupby(Project(t, RollCols).rows, StoreKeys(t.rows), FALSE)}

groupby_rolling_sum(t) ==
    LET g == t.rows
    IN  Frame(t.cols,
              [i \in 1..Len(g) |->
                 [c \in t.cols |->
                    IF c \in {"Store", "Date"} THEN g[i][c] ELSE rolling_sum(g, c, i)]])

(***************************************************************************)
(* Sales filter, cut-off point, split and the written files.  After        *)
(* reset_index(drop=True) the row labels are the positions 0..n-1.         *)
(* getitem is Series[label]: the cell at the label, or no cell when the    *)
(* label is not in the index (the lookup raises).  A slice bound is        *)
(* clipped to 0..n and a negative bound counts from the end; -0 is 0.      *)
(***************************************************************************)
NonZeroSales(r) == ~isna(r["Sales"]) /\ r["Sales"] # V(0)

filter_sales_skipped(t) == t

filter_sales(t) == Frame(t.cols, SelectSeq(t.rows, NonZeroSales))

getitem_clamped(col, label) ==
    IF col = <<>> THEN {}
    ELSE {col[IF label + 1 > Len(col) THEN Len(col) ELSE label + 1]}

getitem(col, label) == IF label + 1 \in DOMAIN col THEN {col[label + 1]} ELSE {}

index_min(col, d) ==
    LET labels == {j - 1 : j \in {i \in DOMAIN col : ~isna(d) /\ col[i] = d}}
    IN  IF labels = {} THEN NaN ELSE V(Min(labels))

index_max(col, d) ==
    LET labels == {j - 1 : j \in {i \in DOMAIN col : ~isna(d) /\ col[i] = d}}
    IN  IF labels = {} THEN NaN ELSE V(Max(labels))

slice_index(k, n) ==
    IF k < 0 THEN (IF n + k < 0 THEN 0 ELSE n + k) ELSE (IF k > n THEN n ELSE k)

slice_from_positive(rows, start) ==
    SubSeq(rows, slice_index(0 - start, Len(rows)) + 1, Len(rows))

slice_from(rows, start) == SubSeq(rows, slice_index(start, Len(rows)) + 1, Len(rows))

slice_to(rows, stop) == SubSeq(rows, 1, slice_index(stop, Len(rows)))

to_csv(t) == [header |-> t.cols, lines |-> t.rows]

(***************************************************************************)
(* The pipeline.                                                           *)
(***************************************************************************)
TablesUnread ==
    /\ train = EmptyFrame
    /\ test = EmptyFrame
    /\ trend_de = EmptyFrame

OutbrainIdle ==
    /\ merged = EmptyFrame
    /\ random_state = <<>>
    /\ valid_set = EmptyFrame
    /\ train_set = EmptyFrame

(* one store with two train days followed by two test days, the school
   holiday on the first train day and the first test day *)
MixedInput ==
    [i \in 1..4 |->
        RawRow(1, [ntrain |-> 2, bits |-> [j \in 1..4 |-> j % 2], gap |-> [j \in 2..4 |-> 1],
                   dup |-> FALSE], i)]

RawInputs == Inputs(Stores, MaxRows) \cup LongInputs \cup {ScenarioInput, CutInput, MixedInput}

Init ==
    /\ \E raw \in RawInputs :
          /\ train_df = TrainFrame(raw)
          /\ test_df = TestFrame(raw)
    /\ pc = "append"
    /\ df = EmptyFrame
    /\ pdf = EmptyFrame
    /\ asc = EmptyFrame
    /\ desc = EmptyFrame
    /\ bwd = EmptyFrame
    /\ fwd = EmptyFrame
    /\ mleft = EmptyFrame
    /\ mright = EmptyFrame
    /\ msuffix = NoSuffix
    /\ mout = EmptyFrame
    /\ cut = NaN
    /\ valid_df = EmptyFrame
    /\ csv = {}
    /\ OutbrainIdle
    /\ TablesUnread

AppendFrames ==
    /\ pc = "append"
    /\ df' = append(train_df, test_df)
    /\ pc' = "sort"
    /\ UNCHANGED <<train_df, test_df, pdf, asc, desc, bwd, fwd, mleft, mright, msuffix, mout, cut, valid_df, csv>>
    /\ UNCHANGED <<outbrain, tables>>

SortStoreDate ==
    /\ pc = "sort"
    /\ \E s \in sort_values(df.rows, <<"Store", "Date">>, TRUE) :
          /\ df' = Frame(df.cols, s)
          /\ pdf' = Frame(df.cols, s)
    /\ pc' = "distance"
    /\ UNCHANGED <<train_df, test_df, asc, desc, bwd, fwd, mleft, mright, msuffix, mout, cut, valid_df, csv>>
    /\ UNCHANGED <<outbrain, tables>>

EventDistance ==
    /\ pc = "distance"
    /\ IF Len(pdf.rows) = 0
       THEN /\ pc' = "error"
            /\ UNCHANGED <<pdf, df>>
       ELSE /\ pdf' = event_distance(pdf)
            /\ df' = event_distance(pdf)
            /\ pc' = "rolling"
    /\ UNCHANGED <<train_df, test_df, asc, desc, bwd, fwd, mleft, mright, msuffix, mout, cut, valid_df, csv>>
    /\ UNCHANGED <<outbrain, tables>>

Rolling ==
    /\ pc = "rolling"
    /\ \E a \in bwd_frames(df) :
          /\ asc' = a
          /\ bwd' = groupby_rolling_sum(a)
    /\ \E d \in fwd_frames(df) :
          /\ desc' = d
          /\ fwd' = groupby_rolling_sum(d)
    /\ pc' = "merge_rolling"
    /\ UNCHANGED <<train_df, test_df, df, pdf, mleft, mright, msuffix, mout, cut, valid_df, csv>>
    /\ UNCHANGED <<outbrain, tables>>

MergeRolling ==
    /\ pc = "merge_rolling"
    /\ df' = DataFrameMerge(
                DataFrameMerge(df, bwd, <<"Date", "Store">>, <<"Date", "Store">>, "_bw"),
                fwd, <<"Date", "Store">>, <<"Date", "Store">>, "_fw")
    /\ pc' = "remerge"
    /\ UNCHANGED <<train_df, test_df, pdf, asc, desc, bwd, fwd, mleft, mright, msuffix, mout, cut, valid_df, csv>>
    /\ UNCHANGED <<outbrain, tables>>

ReMerge ==
    /\ pc = "remerge"
    /\ train_df' = merge(train_df, df, <<"Store", "Date">>, <<"Store", "Date">>, NoSuffix)
    /\ test_df' = merge(test_df, df, <<"Store", "Date">>, <<"Store", "Date">>, NoSuffix)
    /\ pc' = "drop_cols"
    /\ UNCHANGED <<df, pdf, asc, desc, bwd, fwd, mleft, mright, msuffix, mout, cut, valid_df, csv>>
    /\ UNCHANGED <<outbrain, tables>>

DropCols ==
    /\ pc = "drop_cols"
    /\ train_df' = drop_cols(train_df)
    /\ test_df' = drop_cols(test_df)
    /\ pc' = "filter"
    /\ UNCHANGED <<df, pdf, asc, desc, bwd, fwd, mleft, mright, msuffix, mout, cut, valid_df, csv>>
    /\ UNCHANGED <<outbrain, tables>>

FilterSort ==
    /\ pc = "filter"
    /\ \E s \in sort_values(filter_sales(train_df).rows, <<"Date">>, TRUE) :
          train_df' = Frame(train_df.cols, s)
    /\ pc' = "cut"
    /\ UNCHANGED <<test_df, df, pdf, asc, desc, bwd, fwd, mleft, mright, msuffix, mout,
                   cut, valid_df, csv>>
    /\ UNCHANGED <<outbrain, tables>>

CutOff ==
    /\ pc = "cut"
    /\ LET Date == Column(train_df.rows, "Date")
           hit == getitem(Date, Len(test_df.rows))
       IN  IF hit = {}
           THEN /\ pc' = "error"
                /\ UNCHANGED cut
           ELSE /\ cut' = index_max(Date, Only(hit))
                /\ pc' = "split"
    /\ UNCHANGED <<train_df, test_df, df, pdf, asc, desc, bwd, fwd, mleft, mright, msuffix, mout,
                   valid_df, csv>>
    /\ UNCHANGED <<outbrain, tables>>

Split ==
    /\ pc = "split"
    /\ IF isna(cut)
       THEN /\ pc' = "error"
            /\ UNCHANGED <<train_df, valid_df>>
       ELSE /\ valid_df' = Frame(train_df.cols, slice_from(train_df.rows, 0 - Val(cut)))
            /\ train_df' = Frame(train_df.cols, slice_to(train_df.rows, 0 - Val(cut)))
            /\ pc' = "to_csv"
    /\ UNCHANGED <<test_df, df, pdf, asc, desc, bwd, fwd, mleft, mright, msuffix, mout, cut, csv>>
    /\ UNCHANGED <<outbrain, tables>>

WriteCsv ==
    /\ pc = "to_csv"
    /\ csv' = {<<"train.csv", to_csv(train_df)>>,
               <<"valid.csv", to_csv(valid_df)>>,
               <<"test.csv", to_csv(test_df)>>}
    /\ pc' = "done"
    /\ UNCHANGED <<train_df, test_df, df, pdf, asc, desc, bwd, fwd, mleft, mright, msuffix, mout,
                   cut, valid_df>>
    /\ UNCHANGED <<outbrain, tables>>

Next ==
    \/ AppendFrames
    \/ SortStoreDate
    \/ EventDistance
    \/ Rolling
    \/ MergeRolling
    \/ ReMerge
    \/ DropCols
    \/ FilterSort
    \/ CutOff
    \/ Split
    \/ WriteCsv

Spec == Init /\ [][Next]_vars

(***************************************************************************)
(* The merge function on its own: small left and right tables, joined on   *)
(* the left column k and the right column k or rk, with the suffix omitted *)
(* (lines 297-317), '_y' (line 352) or '_DE' (lines 334-335), then         *)
(* drop_cols on the result.                                                *)
(***************************************************************************)
JoinKeys == [1..0 -> 1..MaxKey] \cup UNION {[1..n -> 1..MaxKey] : n \in 1..MaxJoinRows}

LeftTable(ks) ==
    Frame({"k", "a"}, [i \in 1..Len(ks) |-> [k |-> V(ks[i]), a |-> V(i)]])

RightTable(ks, key) ==
    Frame({key, "a", "b"},
          [i \in 1..Len(ks) |->
             [c \in {key, "a", "b"} |->
                IF c = key THEN V(ks[i]) ELSE IF c = "a" THEN V(10 + i) ELSE V(20 + i)]])

RightKey == IF "rk" \in mright.cols THEN <<"rk">> ELSE None

InitMerge ==
    /\ \E lk \in JoinKeys, rk \in JoinKeys, key \in {"k", "rk"} :
          /\ mleft = LeftTable(lk)
          /\ mright = RightTable(rk, key)
    /\ msuffix \in {NoSuffix, "_y", "_DE"}
    /\ mout = EmptyFrame
    /\ pc = "call_merge"
    /\ train_df = EmptyFrame
    /\ test_df = EmptyFrame
    /\ df = EmptyFrame
    /\ pdf = EmptyFrame
    /\ asc = EmptyFrame
    /\ desc = EmptyFrame
    /\ bwd = EmptyFrame
    /\ fwd = EmptyFrame
    /\ cut = NaN
    /\ valid_df = EmptyFrame
    /\ csv = {}
    /\ OutbrainIdle
    /\ TablesUnread

CallMerge ==
    /\ pc = "call_merge"
    /\ mout' = merge(mleft, mright, <<"k">>, RightKey, msuffix)
    /\ pc' = "merge_returned"
    /\ UNCHANGED <<train_df, test_df, df, pdf, asc, desc, bwd, fwd, mleft, mright, msuffix, cut, valid_df, csv>>
    /\ UNCHANGED <<outbrain, tables>>

CallDropCols ==
    /\ pc = "merge_returned"
    /\ mout' = drop_cols(mout)
    /\ pc' = "drop_returned"
    /\ UNCHANGED <<train_df, test_df, df, pdf, asc, desc, bwd, fwd, mleft, mright, msuffix, cut, valid_df, csv>>
    /\ UNCHANGED <<outbrain, tables>>

NextMerge ==
    \/ CallMerge
    \/ CallDropCols

SpecMerge == InitMerge /\ [][NextMerge]_vars

(***************************************************************************)
(* The calendar fields (lines 215-222) of one table with a Date column.    *)
(* A date read from the csv is the record [y, m, d] of its text            *)
(* 'YYYY-MM-DD'; astype('datetime64[ns]') makes it the number of days      *)
(* since 1970-01-01, and dt.year, dt.month, dt.day read the calendar       *)
(* fields back from that number.                                           *)
(***************************************************************************)
NumYears == 2

CalendarRows == 2

Years == 2012..(2012 + NumYears - 1)

IsLeap(y) == (y % 4 = 0 /\ y % 100 # 0) \/ y % 400 = 0

DaysInYear(y) == IF IsLeap(y) THEN 366 ELSE 365

DaysInMonth(y, m) ==
    IF m = 2 THEN (IF IsLeap(y) THEN 29 ELSE 28)
    ELSE IF m \in {4, 6, 9, 11} THEN 30 ELSE 31

RECURSIVE DaysBeforeYear(_)
DaysBeforeYear(y) ==
    IF y = 1970 THEN 0
    ELSE IF y > 1970 THEN DaysBeforeYear(y - 1) + DaysInYear(y - 1)
    ELSE DaysBeforeYear(y + 1) - DaysInYear(y)

RECURSIVE DaysBeforeMonth(_, _)
DaysBeforeMonth(y, m) ==
    IF m <= 1 THEN 0 ELSE DaysBeforeMonth(y, m - 1) + DaysInMonth(y, m - 1)

astype_datetime(text) ==
    V(DaysBeforeYear(text.y) + DaysBeforeMonth(text.y, text.m) + text.d - 1)

RECURSIVE YearFrom(_, _)
YearFrom(y, n) == IF n < DaysInYear(y) THEN y ELSE YearFrom(y + 1, n - DaysInYear(y))

dt_year(date) == YearFrom(1970, Val(date))

RECURSIVE MonthFrom(_, _, _)
MonthFrom(y, m, n) ==
    IF n < DaysInMonth(y, m) THEN m ELSE MonthFrom(y, m + 1, n - DaysInMonth(y, m))

dt_month(date) ==
    MonthFrom(dt_year(date), 1, Val(date) - DaysBeforeYear(dt_year(date)))

dt_day(date) ==
    Val(date) - DaysBeforeYear(dt_year(date))
              - DaysBeforeMonth(dt_year(date), dt_month(date)) + 1

dt_days(delta) == Val(delta)

Week_where_unclamped(week) == week

Week_where(week) == IF week # 53 THEN week ELSE 52

calendar_row(r, cols) ==
    LET Date == astype_datetime(Val(r["Date"]))
        Year == astype_datetime([y |-> dt_year(Date), m |-> 1, d |-> 1])
        Week == (dt_days(Minus(Date, Year)) \div 7) + 1
    IN  [c \in cols \cup {"Month", "Day", "Year", "Week"} |->
            CASE c = "Date" -> Date
              [] c = "Month" -> V(dt_month(Date))
              [] c = "Day" -> V(dt_day(Date))
              [] c = "Week" -> V(Week_where(Week))
              [] c = "Year" -> V(dt_year(Date))
              [] OTHER -> r[c]]

calendar_fields_skipped(t) == t

calendar_fields(t) ==
    Frame(t.cols \cup {"Month", "Day", "Year", "Week"},
          [i \in 1..Len(t.rows) |-> calendar_row(t.rows[i], t.cols)])

CivilDates == {[y |-> y, m |-> m, d |-> d] : y \in Years, m \in 1..12, d \in 1..31}

DateTexts == {t \in CivilDates : t.d <= DaysInMonth(t.y, t.m)}

YearEnds == {t \in DateTexts : (t.m = 1 /\ t.d = 1) \/ (t.m = 12 /\ t.d = 31)}

DateTables ==
    {<<[Date |-> V(t)]>> : t \in DateTexts}
    \cup UNION {{[i \in 1..n |-> [Date |-> V(IF i = 1 THEN t ELSE e)]] :
                   t \in DateTexts, e \in YearEnds} : n \in 2..CalendarRows}

InitCalendar ==
    /\ \E rows \in DateTables : df = Frame({"Date"}, rows)
    /\ pc = "calendar"
    /\ train_df = EmptyFrame
    /\ test_df = EmptyFrame
    /\ pdf = EmptyFrame
    /\ asc = EmptyFrame
    /\ desc = EmptyFrame
    /\ bwd = EmptyFrame
    /\ fwd = EmptyFrame
    /\ mleft = EmptyFrame
    /\ mright = EmptyFrame
    /\ msuffix = NoSuffix
    /\ mout = EmptyFrame
    /\ cut = NaN
    /\ valid_df = EmptyFrame
    /\ csv = {}
    /\ OutbrainIdle
    /\ TablesUnread

CalendarFields ==
    /\ pc = "calendar"
    /\ df' = calendar_fields(df)
    /\ pc' = "calendar_done"
    /\ UNCHANGED <<train_df, test_df, pdf, asc, desc, bwd, fwd, mleft, mright, msuffix,
                   mout, cut, valid_df, csv>>
    /\ UNCHANGED <<outbrain, tables>>

NextCalendar == CalendarFields

SpecCalendar == InitCalendar /\ [][NextCalendar]_vars

(***************************************************************************)
(* The cells up to the event distance on extracts in which one row has no  *)
(* Store or no Date (an empty field of the csv).                           *)
(***************************************************************************)
MissingRows == 2

Blank(t, i, c) == Frame(t.cols, [t.rows EXCEPT ![i][c] = NaN])

InitMissing ==
    /\ \E raw \in Inputs({1, 2}, MissingRows), c \in {"Store", "Date"} :
          \/ /\ \E i \in 1..Len(TrainFrame(raw).rows) :
                    train_df = Blank(TrainFrame(raw), i, c)
             /\ test_df = TestFrame(raw)
          \/ /\ train_df = TrainFrame(raw)
             /\ \E i \in 1..Len(TestFrame(raw).rows) :
                    test_df = Blank(TestFrame(raw), i, c)
    /\ pc = "append"
    /\ df = EmptyFrame
    /\ pdf = EmptyFrame
    /\ asc = EmptyFrame
    /\ desc = EmptyFrame
    /\ bwd = EmptyFrame
    /\ fwd = EmptyFrame
    /\ mleft = EmptyFrame
    /\ mright = EmptyFrame
    /\ msuffix = NoSuffix
    /\ mout = EmptyFrame
    /\ cut = NaN
    /\ valid_df = EmptyFrame
    /\ csv = {}
    /\ OutbrainIdle
    /\ TablesUnread

NextMissing ==
    \/ AppendFrames
    \/ SortStoreDate
    \/ EventDistance

SpecMissing == InitMissing /\ [][NextMissing]_vars

(***************************************************************************)
(* The duration features (lines 395-527) of train_df and test_df: fillna,  *)
(* CompetitionDaysOpen, the replacement of outlying values,                *)
(* CompetitionMonthsOpen, Promo2Days and Promo2Weeks, one action per cell, *)
(* each cell looping over both tables.  Date is already a datetime (a day  *)
(* number).  Every timestamp involved is a midnight, so the seconds and    *)
(* nanoseconds of lines 503-506 are whole days and are kept as days;       *)
(* 7*24*3600*Promo2SinceWeek stays far below 2^31 for a week number.       *)
(***************************************************************************)
DurationRows == 1

SinceCols ==
    {"Date", "CompetitionOpenSinceYear", "CompetitionOpenSinceMonth",
     "Promo2SinceYear", "Promo2SinceWeek"}

assign(t, c, col) ==
    Frame(t.cols \cup {c},
          [i \in 1..Len(t.rows) |->
             [x \in t.cols \cup {c} |-> IF x = c THEN col[i] ELSE t.rows[i][x]]])

fillna(c, value) == IF isna(c) THEN V(value) ELSE c

(* df.loc[df.col < bound, target] = value, on one row *)
loc_lt_unchanged(r, col, bound, target, value) == r[target]

loc_lt(r, col, bound, target, value) ==
    IF ~isna(r[col]) /\ Val(r[col]) < bound THEN V(value) ELSE r[target]

(* df.loc[df.col > bound, col] = value, on one row *)
loc_gt_unchanged(r, col, bound, value) == r[col]

loc_gt(r, col, bound, value) ==
    IF ~isna(r[col]) /\ Val(r[col]) > bound THEN V(value) ELSE r[col]

floordiv(c, n) == IF isna(c) THEN NaN ELSE V(Val(c) \div n)

to_datetime_ymd(r) ==
    astype_datetime([y |-> Val(r["year"]), m |-> Val(r["month"]), d |-> Val(r["day"])])

(* format='%Y' reads the year of the text and nothing else *)
to_datetime_Y(text) == astype_datetime([y |-> Val(text).y, m |-> 1, d |-> 1])

fillna_since(t) ==
    LET t1 == assign(t, "CompetitionOpenSinceYear",
                    [i \in DOMAIN t.rows |-> fillna(t.rows[i]["CompetitionOpenSinceYear"], 1900)])
        t2 == assign(t1, "CompetitionOpenSinceMonth",
                    [i \in DOMAIN t1.rows |-> fillna(t1.rows[i]["CompetitionOpenSinceMonth"], 1)])
        t3 == assign(t2, "Promo2SinceYear",
                    [i \in DOMAIN t2.rows |-> fillna(t2.rows[i]["Promo2SinceYear"], 1900)])
        t4 == assign(t3, "Promo2SinceWeek",
                    [i \in DOMAIN t3.rows |-> fillna(t3.rows[i]["Promo2SinceWeek"], 1)])
    IN  t4

competition_days_open(t) ==
    LET t1 == assign(t, "year",
                    [i \in DOMAIN t.rows |-> t.rows[i]["CompetitionOpenSinceYear"]])
        t2 == assign(t1, "month",
                    [i \in DOMAIN t1.rows |-> t1.rows[i]["CompetitionOpenSinceMonth"]])
        t3 == assign(t2, "day",
                    [i \in DOMAIN t2.rows |-> V(15)])
        t4 == assign(t3, "CompetitionOpenSince",
                    [i \in DOMAIN t3.rows |-> to_datetime_ymd(t3.rows[i])])
        t5 == assign(t4, "CompetitionDaysOpen",
                    [i \in DOMAIN t4.rows |-> V(dt_days(Minus(t4.rows[i]["Date"], t4.rows[i]["CompetitionOpenSince"])))])
    IN  t5

replace_outlying(t) ==
    LET t1 == assign(t, "CompetitionDaysOpen",
                    [i \in DOMAIN t.rows |-> loc_lt(t.rows[i], "CompetitionDaysOpen", 0, "CompetitionDaysOpen", 0)])
        t2 == assign(t1, "CompetitionDaysOpen",
                    [i \in DOMAIN t1.rows |-> loc_lt(t1.rows[i], "CompetitionOpenSinceYear", 1990, "CompetitionDaysOpen", 0)])
    IN  t2

competition_months_open(t) ==
    LET t1 == assign(t, "CompetitionMonthsOpen",
                    [i \in DOMAIN t.rows |-> floordiv(t.rows[i]["CompetitionDaysOpen"], 30)])
        t2 == assign(t1, "CompetitionMonthsOpen",
                    [i \in DOMAIN t1.rows |-> loc_gt(t1.rows[i], "CompetitionMonthsOpen", 24, 24)])
    IN  t2

promo2_days(t) ==
    LET t1 == assign(t, "Promo2SinceYear_tmp",
                    [i \in DOMAIN t.rows |-> V([y |-> Val(t.rows[i]["Promo2SinceYear"]), m |-> 1, d |-> 1])])
        t2 == assign(t1, "Promo2Since",
                    [i \in DOMAIN t1.rows |-> Plus(to_datetime_Y(t1.rows[i]["Promo2SinceYear_tmp"]), V(7 * Val(t1.rows[i]["Promo2SinceWeek"])))])
        t3 == assign(t2, "Promo2Days",
                    [i \in DOMAIN t2.rows |-> V(dt_days(Minus(t2.rows[i]["Date"], t2.rows[i]["Promo2Since"])))])
    IN  t3

promo2_weeks(t) ==
    LET t1 == assign(t, "Promo2Days",
                    [i \in DOMAIN t.rows |-> loc_lt(t.rows[i], "Promo2Days", 0, "Promo2Days", 0)])
        t2 == assign(t1, "Promo2Days",
                    [i \in DOMAIN t1.rows |-> loc_lt(t1.rows[i], "Promo2SinceYear", 1990, "Promo2Days", 0)])
        t3 == assign(t2, "Promo2Weeks",
                    [i \in DOMAIN t2.rows |-> floordiv(t2.rows[i]["Promo2Days"], 7)])
        t4 == assign(t3, "Promo2Weeks",
                    [i \in DOMAIN t3.rows |-> loc_lt(t3.rows[i], "Promo2Weeks", 0, "Promo2Weeks", 0)])
        t5 == assign(t4, "Promo2Weeks",
                    [i \in DOMAIN t4.rows |-> loc_gt(t4.rows[i], "Promo2Weeks", 25, 25)])
    IN  t5

(* the inputs: a Date in the modelled years; an opening year that is
   missing, long ago (1961), 1990, one of the modelled years or the year
   after them; a month that is missing (filled with 1) or 12; a week that is
   missing (filled with 1) or 26 *)
DurationDates == {t \in DateTexts : t.m \in {1, 7} /\ t.d = 16}

SinceYears == {1961, 1990} \cup Years \cup {2012 + NumYears}

Optional(S) == {NaN} \cup {V(x) : x \in S}

SinceRow(t, cy, cm, py, pw) ==
    [c \in SinceCols |->
        CASE c = "Date" -> astype_datetime(t)
          [] c = "CompetitionOpenSinceYear" -> cy
          [] c = "CompetitionOpenSinceMonth" -> cm
          [] c = "Promo2SinceYear" -> py
          [] c = "Promo2SinceWeek" -> pw]

SinceRows ==
    {SinceRow(t, cy, cm, py, pw) :
        t \in DurationDates, cy \in Optional(SinceYears), cm \in Optional({12}),
        py \in Optional(SinceYears), pw \in Optional({26})}

(* rows without any opening date *)
UnsetRows == {SinceRow(t, NaN, NaN, NaN, NaN) : t \in {x \in DurationDates : x.m = 1}}

SinceTables ==
    {<<r>> : r \in SinceRows}
    \cup UNION {{[i \in 1..n |-> IF i = 1 THEN r ELSE u] : r \in SinceRows, u \in UnsetRows} :
                   n \in 2..DurationRows}

InitDuration ==
    /\ \E rows \in SinceTables : train_df = Frame(SinceCols, rows)
    /\ \E rows \in {<<>>} \cup {<<u>> : u \in UnsetRows} : test_df = Frame(SinceCols, rows)
    /\ pc = "fillna"
    /\ df = EmptyFrame
    /\ pdf = EmptyFrame
    /\ asc = EmptyFrame
    /\ desc = EmptyFrame
    /\ bwd = EmptyFrame
    /\ fwd = EmptyFrame
    /\ mleft = EmptyFrame
    /\ mright = EmptyFrame
    /\ msuffix = NoSuffix
    /\ mout = EmptyFrame
    /\ cut = NaN
    /\ valid_df = EmptyFrame
    /\ csv = {}
    /\ OutbrainIdle
    /\ TablesUnread

FillNa ==
    /\ pc = "fillna"
    /\ train_df' = fillna_since(train_df)
    /\ test_df' = fillna_since(test_df)
    /\ pc' = "days_open"
    /\ UNCHANGED <<df, pdf, asc, desc, bwd, fwd, mleft, mright, msuffix, mout, cut, valid_df, csv>>
    /\ UNCHANGED <<outbrain, tables>>

CompetitionDaysOpen ==
    /\ pc = "days_open"
    /\ train_df' = competition_days_open(train_df)
    /\ test_df' = competition_days_open(test_df)
    /\ pc' = "replace_outlying"
    /\ UNCHANGED <<df, pdf, asc, desc, bwd, fwd, mleft, mright, msuffix, mout, cut, valid_df, csv>>
    /\ UNCHANGED <<outbrain, tables>>

ReplaceOutlying ==
    /\ pc = "replace_outlying"
    /\ train_df' = replace_outlying(train_df)
    /\ test_df' = replace_outlying(test_df)
    /\ pc' = "months_open"
    /\ UNCHANGED <<df, pdf, asc, desc, bwd, fwd, mleft, mright, msuffix, mout, cut, valid_df, csv>>
    /\ UNCHANGED <<outbrain, tables>>

CompetitionMonthsOpen ==
    /\ pc = "months_open"
    /\ train_df' = competition_months_open(train_df)
    /\ test_df' = competition_months_open(test_df)
    /\ pc' = "promo2_days"
    /\ UNCHANGED <<df, pdf, asc, desc, bwd, fwd, mleft, mright, msuffix, mout, cut, valid_df, csv>>
    /\ UNCHANGED <<outbrain, tables>>

Promo2Days ==
    /\ pc = "promo2_days"
    /\ train_df' = promo2_days(train_df)
    /\ test_df' = promo2_days(test_df)
    /\ pc' = "promo2_weeks"
    /\ UNCHANGED <<df, pdf, asc, desc, bwd, fwd, mleft, mright, msuffix, mout, cut, valid_df, csv>>
    /\ UNCHANGED <<outbrain, tables>>

Promo2Weeks ==
    /\ pc = "promo2_weeks"
    /\ train_df' = promo2_weeks(train_df)
    /\ test_df' = promo2_weeks(test_df)
    /\ pc' = "duration_done"
    /\ UNCHANGED <<df, pdf, asc, desc, bwd, fwd, mleft, mright, msuffix, mout, cut, valid_df, csv>>
    /\ UNCHANGED <<outbrain, tables>>

NextDuration ==
    \/ FillNa
    \/ CompetitionDaysOpen
    \/ ReplaceOutlying
    \/ CompetitionMonthsOpen
    \/ Promo2Days
    \/ Promo2Weeks

SpecDuration == InitDuration /\ [][NextDuration]_vars

(***************************************************************************)
(* The split cell of the Outbrain notebook (lines 1123-1125): day_event,   *)
(* one uniform draw per row, and scatter_by_map on the 0/1 map, unpacked   *)
(* into valid_set, train_set.  timestamp is in milliseconds and not        *)
(* negative; a draw is kept in tenths.  scatter_by_map without map_size    *)
(* returns as many tables as the map has distinct values, table k holding  *)
(* the rows mapped to k, in no guaranteed order; with the single value 1   *)
(* the map indexes past the only table, and what that table holds is       *)
(* undefined.  Unpacking anything but two tables raises.                   *)
(***************************************************************************)
SplitRows == 3

ms_per_day == 1000 * 60 * 60 * 24

astype_int(num, den) == IF num >= 0 THEN num \div den ELSE 0 - ((0 - num) \div den)

day_event(r) == V(astype_int(Val(r["timestamp"]), ms_per_day))

UniformDraws == {0, 2, 3}

scatter_map_day_only(rows, draws, i) ==
    IF Val(rows[i]["day_event"]) <= 10 THEN 1 ELSE 0

scatter_map(rows, draws, i) ==
    IF Val(rows[i]["day_event"]) <= 10 /\ draws[i] > 2 THEN 1 ELSE 0

RECURSIVE Arrangements(_, _)
Arrangements(rows, S) ==
    IF S = {} THEN {<<>>}
    ELSE UNION {{<<rows[i]>> \o a : a \in Arrangements(rows, S \ {i})} : i \in S}

scatter_by_map(t, map) ==
    LET Part(k) == {i \in DOMAIN map : map[i] = k}
        Table(S) == {Frame(t.cols, a) : a \in Arrangements(t.rows, S)}
    IN  IF Range(map) = {0, 1}
        THEN {<<v, w>> : v \in Table(Part(0)), w \in Table(Part(1))}
        ELSE IF Range(map) = {0} THEN {<<v>> : v \in Table(Part(0))}
        ELSE IF Range(map) = {} THEN {<<>>}
        ELSE UNION {{<<v>> : v \in Table(S)} : S \in SUBSET DOMAIN map}

Timestamps == {0, 11 * ms_per_day - 1, 11 * ms_per_day, 14 * ms_per_day}

MergedTables ==
    UNION {{Frame({"display_id", "timestamp"},
                  [i \in 1..n |-> [display_id |-> V(i), timestamp |-> V(ts[i])]]) :
              ts \in [1..n -> Timestamps]} : n \in 0..SplitRows}

InitOutbrain ==
    /\ merged \in MergedTables
    /\ random_state = <<>>
    /\ valid_set = EmptyFrame
    /\ train_set = EmptyFrame
    /\ pc = "split_cell"
    /\ train_df = EmptyFrame
    /\ test_df = EmptyFrame
    /\ df = EmptyFrame
    /\ pdf = EmptyFrame
    /\ asc = EmptyFrame
    /\ desc = EmptyFrame
    /\ bwd = EmptyFrame
    /\ fwd = EmptyFrame
    /\ mleft = EmptyFrame
    /\ mright = EmptyFrame
    /\ msuffix = NoSuffix
    /\ mout = EmptyFrame
    /\ cut = NaN
    /\ valid_df = EmptyFrame
    /\ csv = {}
    /\ TablesUnread

SplitCell ==
    /\ pc = "split_cell"
    /\ merged' = assign(merged, "day_event", [i \in DOMAIN merged.rows |-> day_event(merged.rows[i])])
    /\ random_state' \in [1..Len(merged.rows) -> UniformDraws]
    /\ \E parts \in scatter_by_map(merged',
                                   [i \in 1..Len(merged.rows) |->
                                      scatter_map(merged'.rows, random_state', i)]) :
          IF Len(parts) = 2
          THEN /\ valid_set' = parts[1]
               /\ train_set' = parts[2]
               /\ pc' = "split_done"
          ELSE /\ pc' = "error"
               /\ UNCHANGED <<valid_set, train_set>>
    /\ UNCHANGED rossmann

NextOutbrain == SplitCell

SpecOutbrain == InitOutbrain /\ [][NextOutbrain]_vars

(***************************************************************************)
(* A whole run of the Rossmann notebook on small extracts: the calendar    *)
(* loop (lines 215-222) over train, test and trend_de, the joins (lines    *)
(* 297-372; of the reference tables the model has trend_de, joined on      *)
(* Year and Week with the suffix '_DE'), and then the cells from the       *)
(* append on.  The csv files hold the dates as text; the extracts lie      *)
(* around the turn of the year 2012/2013, and trend_de has a row for the   *)
(* week of 2012-12-30, for the week of 2013-01-06, or for both.            *)
(***************************************************************************)
RunRows == 2

(* the text of day n of the extracts: day 1 is 2012-12-26 *)
DateText(n) ==
    IF n <= 6 THEN [y |-> 2012, m |-> 12, d |-> 25 + n] ELSE [y |-> 2013, m |-> 1, d |-> n - 6]

read_table(t) ==
    Frame(t.cols,
          [i \in 1..Len(t.rows) |->
             [c \in t.cols |->
                IF c = "Date" THEN V(DateText(Val(t.rows[i][c]))) ELSE t.rows[i][c]]])

TrendWeeks == <<[y |-> 2012, m |-> 12, d |-> 30], [y |-> 2013, m |-> 1, d |-> 6]>>

TrendTables ==
    {Frame({"Date", "trend"},
           [i \in 1..(Len(TrendWeeks) - a + 1) |->
              [Date |-> V(TrendWeeks[a + i - 1]), trend |-> V(a + i - 1)]]) :
        a \in 1..Len(TrendWeeks)}
    \cup {Frame({"Date", "trend"}, <<[Date |-> V(TrendWeeks[1]), trend |-> V(1)]>>)}

InitRun ==
    /\ \E raw \in Inputs({1, 2}, RunRows) :
          /\ train = read_table(TrainFrame(raw))
          /\ test = read_table(TestFrame(raw))
    /\ trend_de \in TrendTables
    /\ pc = "calendar"
    /\ train_df = EmptyFrame
    /\ test_df = EmptyFrame
    /\ df = EmptyFrame
    /\ pdf = EmptyFrame
    /\ asc = EmptyFrame
    /\ desc = EmptyFrame
    /\ bwd = EmptyFrame
    /\ fwd = EmptyFrame
    /\ mleft = EmptyFrame
    /\ mright = EmptyFrame
    /\ msuffix = NoSuffix
    /\ mout = EmptyFrame
    /\ cut = NaN
    /\ valid_df = EmptyFrame
    /\ csv = {}
    /\ OutbrainIdle

(* for df in (weather, googletrend, train, test, trend_de): df is left on
   the last table *)
CalendarLoop ==
    /\ pc = "calendar"
    /\ train' = calendar_fields(train)
    /\ test' = calendar_fields(test)
    /\ trend_de' = calendar_fields(trend_de)
    /\ df' = calendar_fields(trend_de)
    /\ pc' = "join"
    /\ UNCHANGED <<train_df, test_df, pdf, asc, desc, bwd, fwd, mleft, mright, msuffix, mout,
                   cut, valid_df, csv, outbrain>>

(* a key column that a table lacks makes merge raise; train and test are
   set to None once joined (line 318) *)
JoinTables ==
    /\ pc = "join"
    /\ IF {"Year", "Week"} \subseteq (train.cols \cap test.cols) \cap trend_de.cols
       THEN /\ train_df' = drop_cols(merge(train, trend_de, <<"Year", "Week">>,
                                           <<"Year", "Week">>, "_DE"))
            /\ test_df' = drop_cols(merge(test, trend_de, <<"Year", "Week">>,
                                          <<"Year", "Week">>, "_DE"))
            /\ train' = None
            /\ test' = None
            /\ pc' = "append"
       ELSE /\ pc' = "error"
            /\ UNCHANGED <<train_df, test_df, train, test>>
    /\ UNCHANGED <<df, pdf, asc, desc, bwd, fwd, mleft, mright, msuffix, mout, cut, valid_df,
                   csv, trend_de, outbrain>>

NextRun ==
    \/ CalendarLoop
    \/ JoinTables
    \/ AppendFrames
    \/ SortStoreDate
    \/ EventDistance
    \/ Rolling
    \/ MergeRolling
    \/ ReMerge
    \/ DropCols
    \/ FilterSort
    \/ CutOff
    \/ Split
    \/ WriteCsv

SpecRun == InitRun /\ [][NextRun]_vars

(***************************************************************************)
(* Properties.                                                             *)
(***************************************************************************)
Fields == Range(event_fields)

(* the state each step leaves: pdf after the event-distance cell, asc, desc,
   bwd and fwd after the rolling cell, df after the merges with bwd and fwd,
   train_df and test_df after the re-merge (before and after drop_cols) *)
DistanceDone == pc = "rolling"

RollingDone == pc = "merge_rolling"

MergeDone == pc = "remerge"

ReMergeDone == pc \in {"drop_cols", "filter"}

Rows(t) == 1..Len(t.rows)

(* the rows of the frame that belong to the store of row i *)
GroupOf(t, i) == {j \in Rows(t) : t.rows[j]["Store"] = t.rows[i]["Store"]}

DateOf(t, i) == Val(t.rows[i]["Date"])

IsEvent(t, f, i) == t.rows[i][f] # V(0)

(* anchors of row i's group by an explicit scan of the group *)
Anchors(t, f, i) ==
    LET G == GroupOf(t, i)
    IN  {j \in G : IsEvent(t, f, j) \/ j = Min(G) \/ j = Max(G)}

ScanAfter(t, f, i) ==
    LET prior == {j \in Anchors(t, f, i) : j <= i}
    IN  IF prior = {} THEN NaN ELSE V(DateOf(t, i) - DateOf(t, Max(prior)))

ScanBefore(t, f, i) ==
    LET next == {j \in Anchors(t, f, i) : j >= i}
    IN  IF next = {} THEN NaN ELSE V(DateOf(t, Min(next)) - DateOf(t, i))

(* C1: on the table sorted by (Store, Date), After_F and Before_F of every
   row equal the day distance to the nearest anchor at or before / at or
   after the row found by an explicit scan of the row's own group, an anchor
   being a row with F non-zero or the first or last row of the group. *)
C1_EventDistanceIsGroupScan ==
    DistanceDone =>
        \A i \in Rows(pdf) : \A f \in Fields :
            /\ pdf.rows[i][AfterCol(f)] = ScanAfter(pdf, f, i)
            /\ pdf.rows[i][BeforeCol(f)] = ScanBefore(pdf, f, i)

C1_Witness ==
    /\ DistanceDone
    /\ \E i \in Rows(pdf) :
          /\ ~IsEvent(pdf, "Promo", i)
          /\ Val(pdf.rows[i]["AfterPromo"]) = 7
          /\ Val(pdf.rows[i]["BeforePromo"]) = 1

(* C2 as stated: only rows on which F is non-zero act as anchors, so the date
   a row's After_F or Before_F is measured from is the date of a row of its
   group on which F is non-zero. *)
C2_OnlyEventRowsAreAnchors ==
    DistanceDone =>
        \A i \in Rows(pdf) : \A f \in Fields :
            /\ ~isna(pdf.rows[i][AfterCol(f)]) =>
                  \E j \in GroupOf(pdf, i) :
                      /\ j <= i
                      /\ IsEvent(pdf, f, j)
                      /\ DateOf(pdf, i) - DateOf(pdf, j) = Val(pdf.rows[i][AfterCol(f)])
            /\ ~isna(pdf.rows[i][BeforeCol(f)]) =>
                  \E j \in GroupOf(pdf, i) :
                      /\ j >= i
                      /\ IsEvent(pdf, f, j)
                      /\ DateOf(pdf, j) - DateOf(pdf, i) = Val(pdf.rows[i][BeforeCol(f)])

(* C2 amended: the rows whose date is kept as an anchor are exactly the rows
   with F non-zero together with the first and the last row of every group,
   whatever F is on them; no other row is an anchor. *)
C2_AnchorsAreEventsAndGroupEnds ==
    DistanceDone =>
        \A i \in Rows(pdf) : \A f \in Fields :
            ~isna(tmp(pdf.rows, f, i)) <=>
                \/ IsEvent(pdf, f, i)
                \/ i = Min(GroupOf(pdf, i))
                \/ i = Max(GroupOf(pdf, i))

C2_Witness ==
    /\ DistanceDone
    /\ \E i \in Rows(pdf) :
          /\ i = Min(GroupOf(pdf, i))
          /\ i # Max(GroupOf(pdf, i))
          /\ ~IsEvent(pdf, "SchoolHoliday", i)
          /\ pdf.rows[i]["AfterSchoolHoliday"] = V(0)
          /\ pdf.rows[i]["BeforeSchoolHoliday"] = V(0)

NoEvent(t, f, i) == \A j \in GroupOf(t, i) : ~IsEvent(t, f, j)

(* C3 as stated: in a group where F is zero on every row, After_F and
   Before_F are missing on every row. *)
C3_NoEventGroupAllMissing ==
    DistanceDone =>
        \A i \in Rows(pdf) : \A f \in Fields :
            NoEvent(pdf, f, i) =>
                /\ isna(pdf.rows[i][AfterCol(f)])
                /\ isna(pdf.rows[i][BeforeCol(f)])

(* C3 amended: in a group where F is zero on every row neither column is
   missing: After_F is the number of days since the group's first row (0 at
   the group's last row) and Before_F the number of days until the group's
   last row (0 at the group's first row). *)
C3_NoEventGroupMeasuresGroupEnds ==
    DistanceDone =>
        \A i \in Rows(pdf) : \A f \in Fields :
            NoEvent(pdf, f, i) =>
                LET G == GroupOf(pdf, i)
                IN  /\ pdf.rows[i][AfterCol(f)] =
                          IF i = Max(G) THEN V(0) ELSE V(DateOf(pdf, i) - DateOf(pdf, Min(G)))
                    /\ pdf.rows[i][BeforeCol(f)] =
                          IF i = Min(G) THEN V(0) ELSE V(DateOf(pdf, Max(G)) - DateOf(pdf, i))

C3_Witness ==
    /\ DistanceDone
    /\ \E i \in Rows(pdf) :
          /\ NoEvent(pdf, "StateHoliday", i)
          /\ Cardinality(GroupOf(pdf, i)) >= 3
          /\ Val(pdf.rows[i]["AfterStateHoliday"]) > 0
          /\ Val(pdf.rows[i]["BeforeStateHoliday"]) > 0

OnlyEventAtFirstRow(t, f, i) ==
    \A j \in GroupOf(t, i) : IsEvent(t, f, j) <=> j = Min(GroupOf(t, i))

(* C4 as stated: in a group whose only F event is at its first row, Before_F
   is 0 at the first row and After_F of every later row, the last row
   included, exceeds the previous row's After_F by the day gap between them. *)
C4_AfterGrowsThroughLastRow ==
    DistanceDone =>
        \A i \in Rows(pdf) : \A f \in Fields :
            OnlyEventAtFirstRow(pdf, f, i) =>
                IF i = Min(GroupOf(pdf, i))
                THEN pdf.rows[i][BeforeCol(f)] = V(0)
                ELSE pdf.rows[i][AfterCol(f)] =
                        Plus(pdf.rows[i - 1][AfterCol(f)],
                             V(DateOf(pdf, i) - DateOf(pdf, i - 1)))

(* C4 amended: in a group whose only F event is at its first row, Before_F
   is 0 at the first row and After_F of every later row except the group's
   last exceeds the previous row's After_F by the day gap between them; at
   the group's last row After_F is 0, the last row being an anchor itself. *)
C4_AfterGrowsUntilLastRow ==
    DistanceDone =>
        \A i \in Rows(pdf) : \A f \in Fields :
            OnlyEventAtFirstRow(pdf, f, i) =>
                LET G == GroupOf(pdf, i)
                IN  IF i = Min(G)
                    THEN /\ pdf.rows[i][BeforeCol(f)] = V(0)
                         /\ pdf.rows[i][AfterCol(f)] = V(0)
                    ELSE IF i = Max(G)
                    THEN pdf.rows[i][AfterCol(f)] = V(0)
                    ELSE pdf.rows[i][AfterCol(f)] =
                            Plus(pdf.rows[i - 1][AfterCol(f)],
                                 V(DateOf(pdf, i) - DateOf(pdf, i - 1)))

C4_Witness ==
    /\ DistanceDone
    /\ \E i \in Rows(pdf) :
          /\ OnlyEventAtFirstRow(pdf, "SchoolHoliday", i)
          /\ i # Min(GroupOf(pdf, i))
          /\ i # Max(GroupOf(pdf, i))
          /\ Val(pdf.rows[i]["AfterSchoolHoliday"]) >= 2
          /\ pdf.rows[i + 1]["AfterSchoolHoliday"] = V(0)
          /\ DateOf(pdf, i + 1) > DateOf(pdf, i)

(* the rows of row i's group among the 7 rows of the group ending at i *)
TrailingRows(t, i) ==
    {j \in GroupOf(t, i) :
        j <= i /\ Cardinality({m \in GroupOf(t, i) : j <= m /\ m <= i}) <= 7}

(* the rows of row i's group among the 7 rows of the group starting at i *)
LeadingRows(t, i) ==
    {j \in GroupOf(t, i) :
        j >= i /\ Cardinality({m \in GroupOf(t, i) : i <= m /\ m <= j}) <= 7}

WindowSum(t, f, S) == SumOver([j \in S |-> Val(t.rows[j][f])], S)

SameKey(r1, r2) == r1["Store"] = r2["Store"] /\ r1["Date"] = r2["Date"]

Count(rows, r) == Cardinality({i \in DOMAIN rows : rows[i] = r})

SameBag(rows1, rows2) ==
    \A r \in Range(rows1) \cup Range(rows2) : Count(rows1, r) = Count(rows2, r)

PositionInGroup(t, i) == Cardinality({j \in GroupOf(t, i) : j <= i})

(* C5: the frame the trailing window runs over holds the rows of df, each
   store's rows in ascending Date order, and F_bw of every row is the sum of
   F over the min(7, position in group) most recent rows of the same store up
   to and including the row; it is never missing. *)
C5_TrailingSumWithinStore ==
    RollingDone =>
        /\ SameBag(asc.rows, Project(pdf, RollCols).rows)
        /\ Len(bwd.rows) = Len(asc.rows)
        /\ \A i \in Rows(asc) :
              /\ SameKey(bwd.rows[i], asc.rows[i])
              /\ \A j \in GroupOf(asc, i) : j <= i => DateOf(asc, j) <= DateOf(asc, i)
              /\ Cardinality(TrailingRows(asc, i)) =
                    (IF PositionInGroup(asc, i) < 7 THEN PositionInGroup(asc, i) ELSE 7)
              /\ \A f \in Fields :
                    bwd.rows[i][f] = V(WindowSum(asc, f, TrailingRows(asc, i)))

C5_Witness ==
    /\ RollingDone
    /\ \E i \in Rows(asc) :
          /\ PositionInGroup(asc, i) = 8
          /\ asc.rows[Min(GroupOf(asc, i))]["SchoolHoliday"] = V(1)
          /\ bwd.rows[i]["SchoolHoliday"] = V(6)

UniqueDates(t, i) ==
    \A j, m \in GroupOf(t, i) : t.rows[j]["Date"] = t.rows[m]["Date"] => j = m

(* C6: F_fw of every row is the sum of F over the row and up to 6 following
   rows (not earlier in Date) of the same store: it is the trailing sum over
   the store's rows in descending Date order, and for a store with distinct
   dates it is the sum over the row and the next 6 rows of the ascending
   order the trailing pass used. *)
C6_LeadingSumIsTrailingOnReversed ==
    RollingDone =>
        /\ SameBag(desc.rows, asc.rows)
        /\ Len(fwd.rows) = Len(desc.rows)
        /\ \A i \in Rows(desc) :
              /\ SameKey(fwd.rows[i], desc.rows[i])
              /\ \A j \in TrailingRows(desc, i) : DateOf(desc, j) >= DateOf(desc, i)
              /\ \A f \in Fields :
                    fwd.rows[i][f] = V(WindowSum(desc, f, TrailingRows(desc, i)))
        /\ \A i \in Rows(asc) :
              UniqueDates(asc, i) =>
                 \A k \in Rows(fwd) :
                    SameKey(fwd.rows[k], asc.rows[i]) =>
                       \A f \in Fields :
                          fwd.rows[k][f] = V(WindowSum(asc, f, LeadingRows(asc, i)))

C6_Witness ==
    /\ RollingDone
    /\ \E i \in Rows(asc) : \E k \in Rows(fwd) :
          /\ UniqueDates(asc, i)
          /\ SameKey(fwd.rows[k], asc.rows[i])
          /\ PositionInGroup(asc, i) = 1
          /\ Cardinality(GroupOf(asc, i)) = 8
          /\ asc.rows[Max(GroupOf(asc, i))]["Promo"] = V(1)
          /\ fwd.rows[k]["Promo"] = V(3)
          /\ bwd.rows[i]["Promo"] = V(0)

(* C7: with 0/1 indicators and window 7 every F_bw and every F_fw lies in
   0..7, and at the first row (earliest Date) of every group F_bw is the
   row's own F. *)
C7_RollingBounds ==
    RollingDone =>
        /\ \A i \in Rows(bwd) : \A f \in Fields : bwd.rows[i][f] \in {V(n) : n \in 0..7}
        /\ \A i \in Rows(fwd) : \A f \in Fields : fwd.rows[i][f] \in {V(n) : n \in 0..7}
        /\ \A i \in Rows(asc) : \A f \in Fields :
              i = Min(GroupOf(asc, i)) => bwd.rows[i][f] = asc.rows[i][f]

C7_Witness ==
    /\ RollingDone
    /\ \E i \in Rows(asc) :
          /\ i = Min(GroupOf(asc, i))
          /\ Cardinality(GroupOf(asc, i)) = 8
          /\ \A j \in GroupOf(asc, i) : asc.rows[j]["StateHoliday"] = V(1)
          /\ bwd.rows[i]["StateHoliday"] = V(1)
          /\ bwd.rows[Max(GroupOf(asc, i))]["StateHoliday"] = V(7)

UniqueKeys(t) == \A i, j \in Rows(t) : SameKey(t.rows[i], t.rows[j]) => i = j

BwCol(f) == WithSuffix["_bw"][f]

FwCol(f) == WithSuffix["_fw"][f]

(* the rolling sums of the (Store, Date) pair of r, from the table sorted by
   (Store, Date) *)
CarriesOwnSums(r) ==
    \A i \in Rows(pdf) :
        SameKey(pdf.rows[i], r) =>
            \A f \in Fields :
                /\ r[BwCol(f)] = V(WindowSum(pdf, f, TrailingRows(pdf, i)))
                /\ r[FwCol(f)] = V(WindowSum(pdf, f, LeadingRows(pdf, i)))

(* C8: when (Store, Date) is unique, after the merges every row of df, and
   after the re-merge every row of train_df and test_df, carries the F_bw and
   F_fw computed for its own (Store, Date) pair, although bwd and fwd come in
   different row orders. *)
C8_DerivedColumnsAttachedByKey ==
    /\ (MergeDone /\ UniqueKeys(pdf)) =>
          /\ Len(df.rows) = Len(pdf.rows)
          /\ \A n \in Rows(df) :
                /\ \E i \in Rows(pdf) : SameKey(pdf.rows[i], df.rows[n])
                /\ CarriesOwnSums(df.rows[n])
    /\ (ReMergeDone /\ UniqueKeys(pdf)) =>
          /\ \A n \in Rows(train_df) : CarriesOwnSums(train_df.rows[n])
          /\ \A n \in Rows(test_df) : CarriesOwnSums(test_df.rows[n])
          /\ Len(train_df.rows) + Len(test_df.rows) = Len(pdf.rows)

C8_Witness ==
    /\ ReMergeDone
    /\ UniqueKeys(pdf)
    /\ \E n, m \in Rows(train_df) :
          /\ train_df.rows[n]["Date"] = train_df.rows[m]["Date"]
          /\ train_df.rows[n]["Store"] # train_df.rows[m]["Store"]
          /\ train_df.rows[n]["Promo_bw"] = V(1)
          /\ train_df.rows[m]["Promo_bw"] = V(0)
          /\ train_df.rows[n]["Promo_fw"] = V(2)
          /\ train_df.rows[m]["Promo_fw"] = V(0)

(* C9: merging the derived columns back never changes the row count: df has
   as many rows after the merges with bwd and fwd as before, and train_df and
   test_df together as many after the re-merge, for every input. *)
C9_MergeBackKeepsRowCount ==
    /\ MergeDone => Len(df.rows) = Len(pdf.rows)
    /\ ReMergeDone => Len(train_df.rows) + Len(test_df.rows) = Len(pdf.rows)

(***************************************************************************)
(* Properties of merge on its own (SpecMerge).                             *)
(***************************************************************************)
RightKeyCol == IF "rk" \in mright.cols THEN "rk" ELSE "k"

MatchesOf(i) == {j \in Rows(mright) : mright.rows[j][RightKeyCol] = mleft.rows[i]["k"]}

CopiesOf(i) ==
    {n \in Rows(mout) :
        mout.rows[n]["k"] = mleft.rows[i]["k"] /\ mout.rows[n]["a"] = mleft.rows[i]["a"]}

RightKeysUnique ==
    \A i, j \in Rows(mright) :
        mright.rows[i][RightKeyCol] = mright.rows[j][RightKeyCol] => i = j

LeftRowsKept ==
    \A i \in Rows(mleft) :
        /\ CopiesOf(i) # {}
        /\ MatchesOf(i) = {} =>
              /\ Cardinality(CopiesOf(i)) = 1
              /\ \A n \in CopiesOf(i) : \A c \in mout.cols \ mleft.cols : isna(mout.rows[n][c])

(* C10 as stated: the result holds every left row at least once (once, with
   the right columns missing, when unmatched), len(result) >= len(left), and
   len(result) = len(left) if and only if the right table has unique keys. *)
C10_EqualLengthIffRightUnique ==
    pc = "merge_returned" =>
        /\ LeftRowsKept
        /\ Len(mout.rows) >= Len(mleft.rows)
        /\ Len(mout.rows) = Len(mleft.rows) <=> RightKeysUnique

(* C10 amended: the result holds every left row at least once (once, with the
   right columns missing, when unmatched), len(result) >= len(left), and
   len(result) = len(left) if and only if no left row's key occurs more than
   once in the right table; so unique right keys give equality, but equality
   does not give unique right keys. *)
C10_EqualLengthIffNoLeftKeyRepeated ==
    pc = "merge_returned" =>
        /\ LeftRowsKept
        /\ Len(mout.rows) >= Len(mleft.rows)
        /\ Len(mout.rows) = Len(mleft.rows) <=>
              \A i \in Rows(mleft) : Cardinality(MatchesOf(i)) <= 1
        /\ RightKeysUnique => Len(mout.rows) = Len(mleft.rows)

C10_Witness ==
    /\ pc = "merge_returned"
    /\ \E i, j \in Rows(mleft) :
          /\ MatchesOf(i) = {}
          /\ Cardinality(MatchesOf(j)) = 2
          /\ Cardinality(CopiesOf(j)) = 2
    /\ Len(mout.rows) > Len(mleft.rows)

(* the name the right table's column a takes in the output *)
RightA == IF msuffix = "_DE" THEN "a_DE" ELSE "a_y"

(* the left columns keep their names and cells, the right column a, which
   the left table has too, is in the output under its suffixed name and the
   right column b, which the left table has not, under its own *)
NonKeyColumnsNamed ==
    /\ mleft.cols \subseteq mout.cols
    /\ {RightA, "b"} \subseteq mout.cols
    /\ \A i \in Rows(mleft) : \A j \in MatchesOf(i) :
          \E n \in CopiesOf(i) :
              /\ mout.rows[n][RightA] = mright.rows[j]["a"]
              /\ mout.rows[n]["b"] = mright.rows[j]["b"]

(* C11 as stated: every left column keeps its name, a right non-key column
   gets the suffix exactly when a left column has its name, and no key column
   is in the output twice, also when the left and right key names differ:
   the output has the left columns and the right non-key columns only. *)
C11_KeyColumnsNeverDuplicated ==
    pc = "merge_returned" =>
        /\ NonKeyColumnsNamed
        /\ mout.cols = {"k", "a", RightA, "b"}

(* C11 amended: every left column keeps its name, a right non-key column
   gets the suffix exactly when a left column has its name, and a key column
   named alike on both sides is in the output once; when the left and right
   key names differ the output holds both key columns, the right one with the
   matched key value, missing on the rows without a match. *)
C11_KeyDuplicatedWhenNamesDiffer ==
    pc = "merge_returned" =>
        /\ NonKeyColumnsNamed
        /\ mout.cols = {"k", "a", RightA, "b"} \cup {RightKeyCol}
        /\ RightKeyCol = "rk" =>
              \A i \in Rows(mleft) : \A n \in CopiesOf(i) :
                  mout.rows[n]["rk"] = IF MatchesOf(i) = {} THEN NaN ELSE mout.rows[n]["k"]

C11_Witness ==
    /\ pc = "merge_returned"
    /\ msuffix = NoSuffix
    /\ mout.cols = {"k", "a", "a_y", "b", "rk"}
    /\ \E n, m \in Rows(mout) :
          /\ mout.rows[n]["rk"] = mout.rows[n]["k"]
          /\ isna(mout.rows[m]["rk"])
          /\ mout.rows[n]["a"] # mout.rows[n]["a_y"]

(* the rows of the frame are the rows of the frame before, cut down to the
   columns that are left *)
RowsKeptOn(before, after) ==
    /\ Len(after.rows) = Len(before.rows)
    /\ \A n \in Rows(after) : \A c \in after.cols : after.rows[n][c] = before.rows[n][c]

(* C12 as stated: drop_cols deletes the columns whose name ends with '_y',
   which are all the right-hand duplicate columns the join made, so that no
   column of the result is a join-made duplicate (every column left has the
   name of a column of the left or of the right table), and leaves every
   other column and every row unchanged. *)
C12_NoJoinDuplicateRemains ==
    [][pc = "merge_returned" =>
          /\ mout'.cols = mout.cols \ {"a_y"}
          /\ mout'.cols \subseteq mleft.cols \cup mright.cols
          /\ RowsKeptOn(mout, mout')]_vars

(* C12 amended: drop_cols deletes exactly the columns whose name ends with
   '_y' and leaves every other column and every row unchanged; a right-hand
   duplicate column made by a join with another suffix ('_DE') does not end
   with the marker and remains. *)
C12_DropsOnlyMarkedColumns ==
    [][pc = "merge_returned" =>
          /\ mout'.cols = mout.cols \ {"a_y"}
          /\ msuffix = "_DE" => "a_DE" \in mout'.cols
          /\ msuffix # "_DE" => mout'.cols \subseteq mleft.cols \cup mright.cols
          /\ RowsKeptOn(mout, mout')]_vars

C12_Witness ==
    /\ pc = "drop_returned"
    /\ msuffix = "_DE"
    /\ mout.cols = {"k", "a", "a_DE", "b"}
    /\ \E n \in Rows(mout) : mout.rows[n]["a_DE"] # mout.rows[n]["a"] /\ ~isna(mout.rows[n]["a_DE"])

(***************************************************************************)
(* Properties of the calendar fields (SpecCalendar).                       *)
(***************************************************************************)
(* the number of days from Jan 1 of its year to the date of the text *)
DaysSinceJan1(text) ==
    SumOver([m \in 1..12 |-> DaysInMonth(text.y, m)], 1..(text.m - 1)) + text.d - 1

(* C13: for every date, with days the number of days since Jan 1 of its
   year (0..365, leap years included), Week is floor(days / 7) + 1 with 53
   replaced by 52, so Week is in 1..52; Year, Month and Day are the date's own
   calendar fields; the four fields of a row are a function of the row's
   date alone. *)
C13_WeekIn1To52 ==
    [][pc = "calendar" =>
          \A i \in Rows(df) :
              LET text == Val(df.rows[i]["Date"])
                  days == DaysSinceJan1(text)
                  week == (days \div 7) + 1
                  r == df'.rows[i]
              IN  /\ days \in 0..365
                  /\ r["Year"] = V(text.y)
                  /\ r["Month"] = V(text.m)
                  /\ r["Day"] = V(text.d)
                  /\ r["Week"] = V(IF week = 53 THEN 52 ELSE week)
                  /\ Val(r["Week"]) \in 1..52
                  /\ 7 * (Val(r["Week"]) - 1) <= days
                  /\ days < 7 * Val(r["Week"]) + 2]_vars

C13_Witness ==
    /\ pc = "calendar_done"
    /\ Len(df.rows) = 2
    /\ df.rows[1]["Year"] = V(2012)
    /\ df.rows[1]["Month"] = V(12)
    /\ df.rows[1]["Day"] = V(31)
    /\ df.rows[1]["Week"] = V(52)
    /\ df.rows[2]["Week"] = V(1)
    /\ Val(df.rows[1]["Date"]) - Val(df.rows[2]["Date"]) = 365

(***************************************************************************)
(* Properties of the split and the written files (Spec).                   *)
(***************************************************************************)
(* C14: split by count: for every cut from 0 up to the number of rows of
   the Date-sorted table, valid_df is exactly the last cut rows and train_df
   exactly the rows before them, so len(valid_df) = cut and
   len(train_df) = n - cut. *)
C14_ValidIsLastCutRows ==
    [][pc = "split" =>
          LET n == Len(train_df.rows)
              c == Val(cut)
          IN  /\ c \in 0..n
              /\ valid_df'.rows = SubSeq(train_df.rows, n - c + 1, n)
              /\ train_df'.rows = SubSeq(train_df.rows, 1, n - c)
              /\ Len(valid_df'.rows) = c
              /\ Len(train_df'.rows) = n - c]_vars

(* C15: after the split train_df and valid_df are disjoint ranges of rows of
   the filtered, Date-sorted table, together they are that table (train_df
   followed by valid_df, hence the same multiset of rows), and no Date of
   train_df is later than a Date of valid_df. *)
C15_SplitIsDatePartition ==
    [][pc = "split" =>
          /\ train_df'.rows \o valid_df'.rows = train_df.rows
          /\ SameBag(train_df'.rows \o valid_df'.rows, train_df.rows)
          /\ Len(train_df'.rows) + Len(valid_df'.rows) = Len(train_df.rows)
          /\ valid_df'.cols = train_df.cols /\ train_df'.cols = train_df.cols
          /\ \A i \in Rows(train_df') : \A j \in Rows(valid_df') :
                DateOf(train_df', i) <= DateOf(valid_df', j)]_vars

C15_Witness ==
    /\ pc = "to_csv"
    /\ Len(valid_df.rows) = 2
    /\ Len(train_df.rows) >= 1
    /\ DateOf(train_df, Len(train_df.rows)) = DateOf(valid_df, 1)
    /\ valid_df.rows[1]["Store"] # valid_df.rows[2]["Store"]

(* C16: when the filtered, Date-sorted train table has no row at position
   len(test_df), the run stops with an error at the cut-off cell: no split
   is made and no csv is written, ever; otherwise cut is the last position
   holding the Date of the row at position len(test_df), and no other. *)
C16_NoCutRowStopsTheRun ==
    [][/\ (pc = "cut" /\ Len(test_df.rows) >= Len(train_df.rows)) =>
              /\ pc' = "error"
              /\ cut' = NaN /\ valid_df' = EmptyFrame /\ csv' = {}
       /\ (pc = "cut" /\ Len(test_df.rows) < Len(train_df.rows)) =>
              /\ pc' = "split"
              /\ Val(cut') \in Len(test_df.rows)..(Len(train_df.rows) - 1)
              /\ DateOf(train_df, Val(cut') + 1) = DateOf(train_df, Len(test_df.rows) + 1)
              /\ \A i \in Rows(train_df) :
                    i > Val(cut') + 1 => DateOf(train_df, i) > DateOf(train_df, Val(cut') + 1)
       /\ pc = "error" => FALSE]_vars

C16_Witness ==
    /\ pc = "error"
    /\ "Promo_bw" \in train_df.cols
    /\ Len(train_df.rows) >= 1
    /\ Len(test_df.rows) = Len(train_df.rows)
    /\ valid_df = EmptyFrame
    /\ csv = {}

Headers == {f[2].header : f \in csv}

(* C18: the three written tables train.csv, valid.csv and test.csv have the
   same set of columns, although the train extract has a column the test
   extract has not (Sales) and the test extract one the train extract has
   not (Id): each written table has every column of both. *)
C18_WrittenTablesShareColumns ==
    pc = "done" =>
        /\ {f[1] : f \in csv} = {"train.csv", "valid.csv", "test.csv"}
        /\ Cardinality(csv) = 3
        /\ Cardinality(Headers) = 1
        /\ \A h \in Headers : TrainCols \cup TestCols \subseteq h

C18_Witness ==
    /\ pc = "done"
    /\ \A f \in csv :
          /\ {"Id", "Sales", "AfterPromo", "Promo_fw"} \subseteq f[2].header
          /\ f[2].lines # <<>>
          /\ ~(\E c \in f[2].header : endswith(c, "_y"))

(***************************************************************************)
(* Properties of the event distance on extracts with a missing key         *)
(* (SpecMissing).                                                          *)
(***************************************************************************)
MissingKey(t) == \E i \in Rows(t) : isna(t.rows[i]["Store"]) \/ isna(t.rows[i]["Date"])

(* C17: whenever the Store or the Date of some row is missing, the event
   distance stops with an error and makes no After<F> or Before<F> column. *)
C17_MissingKeyStopsEventDistance ==
    (pc \notin {"append", "sort", "distance"} /\ MissingKey(pdf)) =>
        /\ pc = "error"
        /\ pdf.cols \cap (AfterCols \cup BeforeCols) = {}

(***************************************************************************)
(* Properties of the 3 stores x 10 days scenario and of the rolling        *)
(* windows on calendar days (Spec).                                        *)
(***************************************************************************)
(* the merged table of the scenario: 30 rows, Promo on (1, 3) and (2, 7) *)
ScenarioMerged ==
    /\ MergeDone
    /\ Len(df.rows) = 30
    /\ \A n \in Rows(df) :
          /\ Val(df.rows[n]["Store"]) \in 1..3
          /\ Val(df.rows[n]["Date"]) \in 1..10
          /\ df.rows[n]["Promo"] = V(1) <=>
                <<Val(df.rows[n]["Store"]), Val(df.rows[n]["Date"])>> \in {<<1, 3>>, <<2, 7>>}

(* the cell of column c in the row of store s and day d *)
At(s, d, c) ==
    df.rows[CHOOSE n \in Rows(df) :
                df.rows[n]["Store"] = V(s) /\ df.rows[n]["Date"] = V(d)][c]

PromoDays(s) == {d \in 1..10 : At(s, d, "Promo") = V(1)}

(* C19 as stated: in the scenario Promo_bw at store 1 day 10 is 1, and
   AfterPromo / BeforePromo of every row are the day deltas to the nearest
   Promo event of the same store at or before / at or after the row. *)
C19_ScenarioAsHandComputed ==
    ScenarioMerged =>
        /\ At(1, 10, "Promo_bw") = V(1)
        /\ \A s \in 1..3 : \A d \in 1..10 :
              /\ \A e \in PromoDays(s) :
                    (e <= d /\ \A x \in PromoDays(s) : x <= d => x <= e) =>
                        At(s, d, "AfterPromo") = V(d - e)
              /\ \A e \in PromoDays(s) :
                    (e >= d /\ \A x \in PromoDays(s) : x >= d => x >= e) =>
                        At(s, d, "BeforePromo") = V(e - d)

(* the day deltas to the nearest anchor of the store, by hand: the anchors
   are days 1, 3, 10 of store 1, days 1, 7, 10 of store 2 and days 1, 10 of
   store 3 *)
HandAfter(s, d) ==
    CASE s = 1 -> IF d \in {1, 3, 10} THEN 0 ELSE IF d = 2 THEN 1 ELSE d - 3
      [] s = 2 -> IF d \in {1, 7, 10} THEN 0 ELSE IF d < 7 THEN d - 1 ELSE d - 7
      [] s = 3 -> IF d = 10 THEN 0 ELSE d - 1

HandBefore(s, d) ==
    CASE s = 1 -> IF d \in {1, 3, 10} THEN 0 ELSE IF d = 2 THEN 1 ELSE 10 - d
      [] s = 2 -> IF d \in {1, 7, 10} THEN 0 ELSE IF d < 7 THEN 7 - d ELSE 10 - d
      [] s = 3 -> IF d = 1 THEN 0 ELSE 10 - d

(* C19 amended: in the scenario Promo_bw at store 1 day 10 is 0, the
   trailing 7 rows being days 4..10 (it is 1 on days 3..9), and AfterPromo /
   BeforePromo of every row are the day deltas to the nearest anchor of the
   same store, an anchor being a Promo event or the store's first or last
   day. *)
C19_ScenarioWithGroupEndAnchors ==
    ScenarioMerged =>
        /\ At(1, 10, "Promo_bw") = V(0)
        /\ \A d \in 1..10 : At(1, d, "Promo_bw") = V(IF d \in 3..9 THEN 1 ELSE 0)
        /\ \A s \in 1..3 : \A d \in 1..10 :
              /\ At(s, d, "AfterPromo") = V(HandAfter(s, d))
              /\ At(s, d, "BeforePromo") = V(HandBefore(s, d))

C19_Witness ==
    /\ ScenarioMerged
    /\ At(1, 9, "Promo_bw") = V(1)
    /\ At(1, 9, "AfterPromo") = V(6)
    /\ At(2, 4, "BeforePromo") = V(3)
    /\ At(3, 5, "AfterPromo") = V(4)

(* the sum of F over the rows of row i's store whose Date is among the days
   from..to *)
EventsOnDays(t, f, i, from, to) ==
    WindowSum(t, f, {j \in GroupOf(t, i) : DateOf(t, j) \in from..to})

(* C20: F_bw of every row is the number of F events of its store on the
   row's date and the 6 calendar days before it, and F_fw the number on the
   row's date and the 6 calendar days after it, also when the store's rows
   have date gaps. *)
C20_RollingCountsCalendarWeek ==
    RollingDone =>
        /\ \A i \in Rows(bwd) : \A f \in Fields :
              bwd.rows[i][f] = V(EventsOnDays(asc, f, i, DateOf(asc, i) - 6, DateOf(asc, i)))
        /\ \A i \in Rows(fwd) : \A f \in Fields :
              fwd.rows[i][f] = V(EventsOnDays(desc, f, i, DateOf(desc, i), DateOf(desc, i) + 6))

(* C21: on the table sorted by (Store, Date), a row with an anchor of its
   group at or before it has After_F present and >= 0, a row with an anchor
   of its group at or after it has Before_F present and >= 0, and on a row
   that is itself an anchor both are 0. *)
C21_DistancesNonNegative ==
    DistanceDone =>
        \A i \in Rows(pdf) : \A f \in Fields :
            LET A == Anchors(pdf, f, i)
            IN  /\ (\E j \in A : j <= i) =>
                      /\ ~isna(pdf.rows[i][AfterCol(f)])
                      /\ Val(pdf.rows[i][AfterCol(f)]) >= 0
                /\ (\E j \in A : j >= i) =>
                      /\ ~isna(pdf.rows[i][BeforeCol(f)])
                      /\ Val(pdf.rows[i][BeforeCol(f)]) >= 0
                /\ i \in A =>
                      /\ pdf.rows[i][AfterCol(f)] = V(0)
                      /\ pdf.rows[i][BeforeCol(f)] = V(0)

C21_Witness ==
    /\ DistanceDone
    /\ \E i \in Rows(pdf) :
          /\ i - 1 \in GroupOf(pdf, i)
          /\ i + 2 \in GroupOf(pdf, i)
          /\ IsEvent(pdf, "StateHoliday", i)
          /\ pdf.rows[i]["AfterStateHoliday"] = V(0)
          /\ pdf.rows[i]["BeforeStateHoliday"] = V(0)
          /\ ~IsEvent(pdf, "StateHoliday", i + 1)
          /\ Val(pdf.rows[i + 1]["AfterStateHoliday"]) > 0
          /\ Val(pdf.rows[i + 1]["BeforeStateHoliday"]) > 0

DurationDone == pc = "duration_done"

DurationRowsOf == Range(train_df.rows) \cup Range(test_df.rows)

(* C22: after the duration cells every row of train_df and of test_df has
   CompetitionMonthsOpen in 0..24 and Promo2Weeks in 0..25, whether its
   opening year, month or week was missing (filled with 1900 / 1), lies long
   before the row's Date or lies after it. *)
C22_DurationsWithinCaps ==
    DurationDone =>
        \A r \in DurationRowsOf :
            /\ ~isna(r["CompetitionMonthsOpen"])
            /\ Val(r["CompetitionMonthsOpen"]) \in 0..24
            /\ ~isna(r["Promo2Weeks"])
            /\ Val(r["Promo2Weeks"]) \in 0..25

(* a row whose competitor opened after its Date and whose Promo2 started
   more than 25 weeks before it, with a test row whose opening dates were
   missing *)
C22_Witness ==
    /\ DurationDone
    /\ \E r \in Range(train_df.rows) :
          /\ Val(r["CompetitionOpenSince"]) > Val(r["Date"])
          /\ r["CompetitionMonthsOpen"] = V(0)
          /\ Val(r["Promo2SinceYear"]) >= 1990
          /\ Val(r["Date"]) - Val(r["Promo2Since"]) > 7 * 26
          /\ r["Promo2Weeks"] = V(25)
    /\ \E r \in Range(test_df.rows) :
          /\ r["CompetitionOpenSinceYear"] = V(1900)
          /\ r["Promo2SinceYear"] = V(1900)
          /\ r["CompetitionMonthsOpen"] = V(0)
          /\ r["Promo2Weeks"] = V(0)

SplitDone == pc = "split_done"

InTable(t, r) == \E x \in Range(t.rows) : x["display_id"] = r["display_id"]

(* C23: when the Outbrain split cell has run, every row of merged is in
   exactly one of train_set and valid_set; a row is in train_set iff its
   day_event is <= 10 and its draw is > 0.2; every row stamped on day 11 or
   later is in valid_set and no row of train_set is; and before the cell
   runs on a table with two rows of the first 11 days, it can end with a
   given row in train_set and it can end with that row in valid_set. *)
C23_OutbrainSplit ==
    /\ SplitDone =>
          /\ Len(train_set.rows) + Len(valid_set.rows) = Len(merged.rows)
          /\ \A i \in Rows(merged) :
                /\ InTable(train_set, merged.rows[i]) # InTable(valid_set, merged.rows[i])
                /\ InTable(train_set, merged.rows[i]) <=>
                      (Val(merged.rows[i]["day_event"]) <= 10 /\ random_state[i] > 2)
                /\ Val(merged.rows[i]["timestamp"]) >= 11 * ms_per_day =>
                      InTable(valid_set, merged.rows[i])
          /\ Range(train_set.rows) \cup Range(valid_set.rows) = Range(merged.rows)
          /\ \A r \in Range(train_set.rows) : Val(r["timestamp"]) < 11 * ms_per_day
    /\ (/\ pc = "split_cell"
        /\ \E i, j \in Rows(merged) :
              /\ i # j
              /\ Val(merged.rows[i]["timestamp"]) < 11 * ms_per_day
              /\ Val(merged.rows[j]["timestamp"]) < 11 * ms_per_day) =>
          \E i \in Rows(merged) :
              /\ ENABLED (SplitCell /\ pc' = "split_done" /\ InTable(train_set', merged.rows[i]))
              /\ ENABLED (SplitCell /\ pc' = "split_done" /\ InTable(valid_set', merged.rows[i]))

(* a finished split with a row of the first 11 days on either side and a
   later row *)
C23_Witness ==
    /\ SplitDone
    /\ \E i, j, k \in Rows(merged) :
          /\ merged.rows[i]["timestamp"] = merged.rows[j]["timestamp"]
          /\ merged.rows[i]["day_event"] = V(10)
          /\ InTable(train_set, merged.rows[i])
          /\ InTable(valid_set, merged.rows[j])
          /\ merged.rows[k]["day_event"] = V(11)
          /\ InTable(valid_set, merged.rows[k])

(* the stage whose turn it is at each position of the run; the append of
   the two tables prepares the sort, the merges with bwd and fwd and
   drop_cols belong to the re-join, the cut-off point to the splitter *)
StageAt(p) ==
    CASE p = "calendar" -> "Calendar Feature Deriver"
      [] p = "join" -> "Table Joiner"
      [] p \in {"append", "sort"} -> "sort by (Store, Date)"
      [] p = "distance" -> "Event-Distance Engine"
      [] p = "rolling" -> "Rolling Aggregation Engine"
      [] p \in {"merge_rolling", "remerge", "drop_cols"} -> "re-join"
      [] p = "filter" -> "filter/sort"
      [] p \in {"cut", "split"} -> "Partition Splitter"
      [] p \in {"to_csv", "done"} -> "output"

StatedOrder ==
    <<"Table Joiner", "Calendar Feature Deriver", "sort by (Store, Date)",
      "Event-Distance Engine", "Rolling Aggregation Engine", "re-join", "filter/sort",
      "Partition Splitter", "output">>

NotebookOrder ==
    <<"Calendar Feature Deriver", "Table Joiner", "sort by (Store, Date)",
      "Event-Distance Engine", "Rolling Aggregation Engine", "re-join", "filter/sort",
      "Partition Splitter", "output">>

Position(order, stage) == CHOOSE k \in DOMAIN order : order[k] = stage

(* a step stays in its stage or enters the next stage of the order *)
StepFollows(order) ==
    (pc' # pc /\ pc' # "error") =>
        Position(order, StageAt(pc')) \in
            {Position(order, StageAt(pc)), Position(order, StageAt(pc)) + 1}

IsSorted(rows, by) ==
    \A i, j \in DOMAIN rows : i < j => ~Precedes(rows[j], rows[i], by, TRUE)

(* what the stage before the current one has left behind *)
PrecedingStageFinished ==
    /\ pc = "join" =>
          \A t \in {train, test, trend_de} : {"Year", "Month", "Day", "Week"} \subseteq t.cols
    /\ pc = "append" => "trend" \in train_df.cols \cap test_df.cols
    /\ pc = "distance" => IsSorted(pdf.rows, <<"Store", "Date">>)
    /\ pc = "rolling" => (AfterCols \cup BeforeCols) \subseteq df.cols
    /\ pc = "merge_rolling" =>
          /\ Len(bwd.rows) = Len(df.rows)
          /\ Len(fwd.rows) = Len(df.rows)
    /\ pc = "filter" =>
          (AfterCols \cup BeforeCols \cup {"Promo_bw", "Promo_fw"}) \subseteq train_df.cols
    /\ pc = "cut" =>
          /\ \A r \in Range(train_df.rows) : NonZeroSales(r)
          /\ IsSorted(train_df.rows, <<"Date">>)
    /\ pc = "to_csv" => ~isna(cut)

(* C24 as stated: in every run the stages execute in the order Table
   Joiner, Calendar Feature Deriver, sort by (Store, Date), Event-Distance
   Engine, Rolling Aggregation Engine, re-join, filter/sort, Partition
   Splitter, and no stage starts before the preceding one has finished. *)
C24_StagesInStatedOrder == [][StepFollows(StatedOrder) /\ PrecedingStageFinished']_vars

(* C24 amended: in every run the stages execute in the order Calendar
   Feature Deriver, Table Joiner, sort by (Store, Date), Event-Distance
   Engine, Rolling Aggregation Engine, re-join, filter/sort, Partition
   Splitter: the calendar fields are derived on the tables as read, before
   the joins, which use Year and Week as keys; no stage starts before the
   preceding one has finished. *)
C24_CalendarDeriverBeforeJoiner ==
    [][StepFollows(NotebookOrder) /\ PrecedingStageFinished']_vars

(* a finished run whose written train table carries the calendar fields, the
   joined trend and the derived columns *)
C24_Witness ==
    /\ pc = "done"
    /\ \E f \in csv :
          /\ f[1] = "train.csv"
          /\ f[2].lines # <<>>
          /\ {"Week", "trend", "AfterPromo", "Promo_bw"} \subseteq f[2].header
          /\ \E r \in Range(f[2].lines) : ~isna(r["trend"])

(* the row of a frame at a 0-based label *)
RowAt(t, label) == t.rows[label + 1]

(* C25: once the cut-off cell has run on the zero-Sales-filtered,
   Date-sorted train table of n rows, cut is the greatest label i with
   Date[i] = Date[len(test_df)], so len(test_df) <= cut <= n - 1 and the row
   at label cut + 1, if any, has a strictly later Date; and the validation
   table the split makes has at least len(test_df) rows. *)
C25_CutIsLastRowOfItsDate ==
    /\ pc = "split" =>
          LET n == Len(train_df.rows)
              L == Len(test_df.rows)
              Same == {i \in 0..(n - 1) : RowAt(train_df, i)["Date"] = RowAt(train_df, L)["Date"]}
          IN  /\ ~isna(cut)
              /\ Val(cut) \in Same
              /\ \A i \in Same : i <= Val(cut)
              /\ L <= Val(cut) /\ Val(cut) <= n - 1
              /\ Val(cut) + 1 <= n - 1 =>
                    Val(RowAt(train_df, Val(cut) + 1)["Date"]) >
                        Val(RowAt(train_df, Val(cut))["Date"])
    /\ pc = "to_csv" => Len(valid_df.rows) >= Len(test_df.rows)

(* a split with a test table that is not empty, a cut beyond a tie on the
   Date, and rows after the cut *)
C25_Witness ==
    /\ pc = "split"
    /\ Len(test_df.rows) >= 1
    /\ Val(cut) > Len(test_df.rows)
    /\ Val(cut) + 1 <= Len(train_df.rows) - 1

Written(name) == Only({f[2] : f \in {x \in csv : x[1] = name}})

(* the rows of pdf, the combined table sorted by (Store, Date), that came
   from the train extract and from the test extract *)
TrainRowsOf(t) == {i \in Rows(t) : ~isna(t.rows[i]["Sales"])}

TestRowsOf(t) == {i \in Rows(t) : ~isna(t.rows[i]["Id"])}

UniqueKeyAt(t, i) == \A j \in Rows(t) : SameKey(t.rows[j], t.rows[i]) => j = i

(* the derived columns of r are those of row i of the unfiltered table *)
CarriesFeaturesOf(r, i) ==
    \A f \in Fields :
        /\ r[AfterCol(f)] = ScanAfter(pdf, f, i)
        /\ r[BeforeCol(f)] = ScanBefore(pdf, f, i)
        /\ r[BwCol(f)] = V(WindowSum(pdf, f, TrailingRows(pdf, i)))
        /\ r[FwCol(f)] = V(WindowSum(pdf, f, LeadingRows(pdf, i)))

(* C26: when the Sales filter starts, train_df carries the derived columns
   and still holds its rows without sales; the filter leaves no row with
   Sales = 0 in train_df, and in the written files no row of train.csv or
   valid.csv has Sales = 0 and every train row with sales is in
   one of them, test.csv holds every test row, and on every written train or
   valid row whose (Store, Date) is unique the derived columns have the
   values computed by a scan of the row's store in the unfiltered table,
   the rows without sales included. *)
C26_FilterAfterFeatures ==
    /\ pc = "filter" =>
          /\ (AfterCols \cup BeforeCols) \subseteq train_df.cols
          /\ {BwCol(f) : f \in Fields} \cup {FwCol(f) : f \in Fields} \subseteq train_df.cols
          /\ \A i \in TrainRowsOf(pdf) :
                \E r \in Range(train_df.rows) : SameKey(r, pdf.rows[i])
    /\ pc = "cut" => \A r \in Range(train_df.rows) : NonZeroSales(r)
    /\ pc = "done" =>
          LET kept == Range(Written("train.csv").lines) \cup Range(Written("valid.csv").lines)
          IN  /\ \A r \in kept : ~isna(r["Sales"]) /\ r["Sales"] # V(0)
              /\ \A i \in TrainRowsOf(pdf) :
                    pdf.rows[i]["Sales"] # V(0) => \E r \in kept : SameKey(r, pdf.rows[i])
              /\ \A i \in TestRowsOf(pdf) :
                    \E r \in Range(Written("test.csv").lines) :
                        SameKey(r, pdf.rows[i]) /\ r["Id"] = pdf.rows[i]["Id"]
              /\ \A r \in kept : \A i \in Rows(pdf) :
                    (SameKey(pdf.rows[i], r) /\ UniqueKeyAt(pdf, i)) => CarriesFeaturesOf(r, i)

(* a written row whose AfterStateHoliday and StateHoliday_bw come from the
   row before it in its store, a row without sales that the filter removed *)
C26_Witness ==
    /\ pc = "done"
    /\ \E r \in Range(Written("train.csv").lines) \cup Range(Written("valid.csv").lines) :
          \E i \in Rows(pdf) :
              /\ SameKey(pdf.rows[i], r)
              /\ i - 1 \in GroupOf(pdf, i)
              /\ i + 1 \in GroupOf(pdf, i)
              /\ pdf.rows[i - 1]["Sales"] = V(0)
              /\ IsEvent(pdf, "StateHoliday", i - 1)
              /\ ~IsEvent(pdf, "StateHoliday", i)
              /\ r["AfterStateHoliday"] = V(DateOf(pdf, i) - DateOf(pdf, i - 1))
              /\ Val(r["AfterStateHoliday"]) > 0
              /\ Val(r["StateHoliday_bw"]) >= 1

(* row j is where the forward fill finds the date of row i: the nearest row
   at or above i, anywhere in the table, whose masked date is present *)
FfillSource(t, f, i, j) ==
    /\ j \in 1..i
    /\ ~isna(tmp(t.rows, f, j))
    /\ \A k \in (j + 1)..i : isna(tmp(t.rows, f, k))

(* row j is where the backward fill finds the date of row i *)
BfillSource(t, f, i, j) ==
    /\ j \in i..Len(t.rows)
    /\ ~isna(tmp(t.rows, f, j))
    /\ \A k \in i..(j - 1) : isna(tmp(t.rows, f, k))

(* C27: in the table sorted by (Store, Date), for every row and every
   field, the forward fill and the backward fill over the whole table find
   their date on a row of the same Store, and AfterF and BeforeF are the
   distances to those rows. *)
C27_FillsStayInsideStore ==
    DistanceDone =>
        \A f \in Fields : \A i \in Rows(pdf) :
            /\ \E j \in GroupOf(pdf, i) :
                  /\ FfillSource(pdf, f, i, j)
                  /\ pdf.rows[i][AfterCol(f)] = V(DateOf(pdf, i) - DateOf(pdf, j))
            /\ \E j \in GroupOf(pdf, i) :
                  /\ BfillSource(pdf, f, i, j)
                  /\ pdf.rows[i][BeforeCol(f)] = V(DateOf(pdf, j) - DateOf(pdf, i))

(* a store with a single row without the event, between the rows of two
   other stores that have the event, and a store whose first row without the
   event follows another store's row with the event *)
C27_Witness ==
    /\ DistanceDone
    /\ \/ \E i \in Rows(pdf) :
             /\ GroupOf(pdf, i) = {i}
             /\ i - 1 \in Rows(pdf) /\ i + 1 \in Rows(pdf)
             /\ ~IsEvent(pdf, "Promo", i)
             /\ IsEvent(pdf, "Promo", i - 1) /\ IsEvent(pdf, "Promo", i + 1)
             /\ pdf.rows[i]["AfterPromo"] = V(0)
             /\ pdf.rows[i]["BeforePromo"] = V(0)
       \/ \E i \in Rows(pdf) :
             /\ i - 1 \in Rows(pdf) \ GroupOf(pdf, i)
             /\ i + 1 \in GroupOf(pdf, i)
             /\ ~IsEvent(pdf, "Promo", i)
             /\ IsEvent(pdf, "Promo", i - 1)
             /\ pdf.rows[i]["AfterPromo"] = V(0)

FirstOfGroup(t, i) == \A j \in GroupOf(t, i) : i <= j

LastOfGroup(t, i) == \A j \in GroupOf(t, i) : j <= i

(* C28: after the event-distance cell, for every field, no row has a
   missing AfterF or BeforeF, AfterF is 0 on the last row of every store
   and BeforeF is 0 on the first row of every store, whatever the values of
   the field. *)
C28_GroupEndsAreZero ==
    DistanceDone =>
        \A f \in Fields : \A i \in Rows(pdf) :
            /\ ~isna(pdf.rows[i][AfterCol(f)])
            /\ ~isna(pdf.rows[i][BeforeCol(f)])
            /\ LastOfGroup(pdf, i) => pdf.rows[i][AfterCol(f)] = V(0)
            /\ FirstOfGroup(pdf, i) => pdf.rows[i][BeforeCol(f)] = V(0)

(* a store of three rows or more in which Promo is set on no row: its first
   and last rows still get 0, the rows between get the distances to them *)
C28_Witness ==
    /\ DistanceDone
    /\ \E i \in Rows(pdf) :
          /\ i - 1 \in GroupOf(pdf, i) /\ FirstOfGroup(pdf, i - 1)
          /\ i + 1 \in GroupOf(pdf, i) /\ LastOfGroup(pdf, i + 1)
          /\ \A j \in GroupOf(pdf, i) : ~IsEvent(pdf, "Promo", j)
          /\ pdf.rows[i - 1]["BeforePromo"] = V(0)
          /\ pdf.rows[i + 1]["AfterPromo"] = V(0)
          /\ Val(pdf.rows[i]["AfterPromo"]) > 0
          /\ Val(pdf.rows[i]["BeforePromo"]) > 0

(* df, after the calendar cell, holds one row per week of one year: its
   rows lie pairwise exactly 7 days apart and in the same year *)
WeeklyRows(t) ==
    \A i, j \in Rows(t) :
        i < j => /\ t.rows[i]["Year"] = t.rows[j]["Year"]
                 /\ Val(t.rows[j]["Date"]) - Val(t.rows[i]["Date"]) \in {7, -7}

(* the left join of one dated row with the weekly table on (Year, Week) *)
JoinOnYearWeek(r, t) ==
    merge(Frame(t.cols, <<r>>), t, <<"Year", "Week">>, <<"Year", "Week">>, "_DE")

(* C29: after the calendar cell, two rows of the same year whose dates lie
   exactly 7 days apart have different Week values, so in a table with one
   row per week (Year, Week) is a key and the left join of a dated row with
   it on (Year, Week) returns one row. *)
C29_YearWeekIsWeeklyKey ==
    (pc = "calendar_done" /\ WeeklyRows(df)) =>
        /\ \A i, j \in Rows(df) : i < j => df.rows[i]["Week"] # df.rows[j]["Week"]
        /\ \A i \in Rows(df) : Len(JoinOnYearWeek(df.rows[i], df).rows) = 1

AllRows == Range(train_df.rows) \cup Range(test_df.rows)

(* no other row of train_df or test_df has the (Store, Date) of r *)
Alone(r) == \A x \in AllRows : SameKey(x, r) => x = r

Earlier(x, r) == x["Store"] = r["Store"] /\ Val(x["Date"]) < Val(r["Date"])

(* q is the row that follows r in their store, train and test rows taken
   together *)
Adjacent(r, q) ==
    /\ Earlier(r, q)
    /\ Alone(r)
    /\ Alone(q)
    /\ ~\E x \in AllRows : Earlier(r, x) /\ Earlier(x, q)

(* C30: when the re-merge and drop_cols are done, every row of train_df and
   of test_df with a (Store, Date) of its own carries the AfterF, BeforeF,
   F_bw and F_fw computed on the combined table of train and test rows; in
   particular, for a train row r directly followed in its store by a test
   row q: if r is not the store's first row and has no event and q has one,
   BeforeF of r is the distance to q and F_fw of r counts q; if q is not the
   store's last row and has no event and r has one, AfterF of q is the
   distance to r and F_bw of q counts r. *)
C30_FeaturesSpanTrainAndTest ==
    pc = "filter" =>
        /\ \A r \in AllRows :
              /\ \E i \in Rows(pdf) : SameKey(pdf.rows[i], r)
              /\ \A i \in Rows(pdf) :
                    (SameKey(pdf.rows[i], r) /\ Alone(r)) => CarriesFeaturesOf(r, i)
        /\ \A f \in Fields : \A r \in Range(train_df.rows) : \A q \in Range(test_df.rows) :
              Adjacent(r, q) =>
                  /\ (r[f] = V(0) /\ q[f] # V(0) /\ \E x \in AllRows : Earlier(x, r)) =>
                        /\ r[BeforeCol(f)] = Minus(q["Date"], r["Date"])
                        /\ Val(r[FwCol(f)]) >= Val(q[f])
                  /\ (q[f] = V(0) /\ r[f] # V(0) /\ \E y \in AllRows : Earlier(q, y)) =>
                        /\ q[AfterCol(f)] = Minus(q["Date"], r["Date"])
                        /\ Val(q[BwCol(f)]) >= Val(r[f])

(* the last train row r of a store and the first test row q of the store,
   neither at an end of the store: alone in its table each would be the end
   of its store, with BeforeF = 0 and F_fw = F for r and AfterF = 0 and
   F_bw = F for q *)
C30_Witness ==
    /\ pc = "filter"
    /\ \E r \in Range(train_df.rows) : \E q \in Range(test_df.rows) :
          /\ Adjacent(r, q)
          /\ \E x \in Range(train_df.rows) : Earlier(x, r)
          /\ \E y \in Range(test_df.rows) : Earlier(q, y)
          /\ r["SchoolHoliday"] = V(0) /\ q["SchoolHoliday"] = V(1)
          /\ Val(r["BeforeSchoolHoliday"]) > 0
          /\ r["SchoolHoliday_fw"] # r["SchoolHoliday"]
          /\ r["StateHoliday"] = V(1) /\ q["StateHoliday"] = V(0)
          /\ Val(q["AfterStateHoliday"]) > 0
          /\ q["StateHoliday_bw"] # q["StateHoliday"]

====
